---- MODULE Spec2Model ----
(***************************************************************************)
(* Verification model of the grid rendering and gesture engine of          *)
(* BlockChance_FE: the strategy selector (GameGrid), the two rasterized    *)
(* backends (CanvasGameGrid, MobileOptimizedCanvas), the two markup        *)
(* backends (per-cell GameGrid, VirtualizedGameGrid) and the selection     *)
(* handlers of MintingInterface.                                           *)
(*                                                                         *)
(* JavaScript numbers are modelled as exact rationals <<n, d>> with d > 0  *)
(* in lowest terms.  A handler and the re-render React performs after it   *)
(* are one action.                                                         *)
(***************************************************************************)
EXTENDS Integers, Sequences, FiniteSets, TLC

(***************************************************************************)
(* Exact rational arithmetic                                               *)
(***************************************************************************)
Abs(n) == IF n < 0 THEN -n ELSE n

RECURSIVE GCD(_, _)
GCD(a, b) == IF b = 0 THEN a ELSE GCD(b, a % b)

Norm(n, d) ==
    LET g == GCD(Abs(n), d)
    IN  IF g = 0 THEN <<0, 1>> ELSE <<n \div g, d \div g>>

R(n) == <<n, 1>>
Frac(n, d) == Norm(n, d)

\* denominators are cancelled before multiplying, to keep the integers small
RAdd(a, b) ==
    LET g == GCD(a[2], b[2])
    IN  Norm(a[1] * (b[2] \div g) + b[1] * (a[2] \div g), a[2] * (b[2] \div g))
RNeg(a) == <<-a[1], a[2]>>
RSub(a, b) == RAdd(a, RNeg(b))
RMul(a, b) ==
    LET g1 == GCD(Abs(a[1]), b[2])
        g2 == GCD(Abs(b[1]), a[2])
    IN  IF a[1] = 0 \/ b[1] = 0 THEN <<0, 1>>
        ELSE <<(a[1] \div g1) * (b[1] \div g2), (a[2] \div g2) * (b[2] \div g1)>>
RInv(b) == IF b[1] > 0 THEN <<b[2], b[1]>> ELSE <<-b[2], -b[1]>>
RDiv(a, b) == RMul(a, RInv(b))
RLt(a, b) == a[1] * b[2] < b[1] * a[2]
RLe(a, b) == a[1] * b[2] <= b[1] * a[2]
RMax(a, b) == IF RLt(a, b) THEN b ELSE a
RMin(a, b) == IF RLt(b, a) THEN b ELSE a
RAbs(a) == <<Abs(a[1]), a[2]>>
RFloor(a) == a[1] \div a[2]
RCeil(a) == -((-a[1]) \div a[2])
IMax(a, b) == IF a < b THEN b ELSE a
IMin(a, b) == IF b < a THEN b ELSE a

(***************************************************************************)
(* CanvasGameGrid (rasterized-desktop): geometry                           *)
(***************************************************************************)
Canvas_baseCellSize == 8
Canvas_cellSize(zoom) == RMax(R(2), RMul(R(Canvas_baseCellSize), zoom))
Canvas_gap(zoom) == RMax(R(1), zoom)
Canvas_pitch(zoom) == RAdd(Canvas_cellSize(zoom), Canvas_gap(zoom))

\* Math.max(0, Math.floor(-viewport.x / (cellSize + gap)))
Canvas_visibleStart(off, pitch) ==
    IMax(0, RFloor(RDiv(RNeg(off), pitch)))

Canvas_visibleEnd_unclamped(off, size, pitch, n) ==
    RCeil(RDiv(RSub(R(size), off), pitch)) + 1

\* Math.min(cols, Math.ceil((canvas.width - viewport.x) / (cellSize + gap)) + 1)
Canvas_visibleEnd(off, size, pitch, n) ==
    IMin(n, RCeil(RDiv(RSub(R(size), off), pitch)) + 1)

(***************************************************************************)
(* MobileOptimizedCanvas (rasterized-touch): geometry                      *)
(***************************************************************************)
Mobile_baseCellSize == 6
Mobile_buffer == 20
Mobile_cellSize(zoom) == RMax(R(1), RMul(R(Mobile_baseCellSize), zoom))
Mobile_gap(zoom) == RMax(Frac(1, 2), zoom)
Mobile_pitch(zoom) == RAdd(Mobile_cellSize(zoom), Mobile_gap(zoom))

\* Math.max(0, Math.floor((-viewport.x - buffer) / (cellSize + gap)))
Mobile_visibleStart(off, pitch) ==
    IMax(0, RFloor(RDiv(RSub(RNeg(off), R(Mobile_buffer)), pitch)))

Mobile_visibleEnd_all(off, size, pitch, n) == n

\* Math.min(cols, Math.ceil((canvas.width - viewport.x + buffer) / (cellSize + gap)))
Mobile_visibleEnd(off, size, pitch, n) ==
    IMin(n, RCeil(RDiv(RAdd(RSub(R(size), off), R(Mobile_buffer)), pitch)))

(***************************************************************************)
(* CanvasGameGrid: camera operations.  A viewport is [x, y, zoom].         *)
(***************************************************************************)
Canvas_initialViewport == [x |-> R(0), y |-> R(0), zoom |-> R(1)]

Canvas_zoomMin == Frac(1, 10)
Canvas_zoomMax == R(5)

\* handleWheel: mouse is the cursor relative to the canvas (clientX - rect.left)
Canvas_wheelZoom(zoom, deltaY) ==
    RMax(Canvas_zoomMin,
         RMin(Canvas_zoomMax,
              RMul(zoom, RSub(R(1), RMul(R(deltaY), Frac(1, 1000))))))

Canvas_handleWheel(vp, mouse, deltaY) ==
    LET newZoom == Canvas_wheelZoom(vp.zoom, deltaY)
        zoomRatio == RDiv(newZoom, vp.zoom)
        newX == RSub(mouse.x, RMul(RSub(mouse.x, vp.x), zoomRatio))
        newY == RSub(mouse.y, RMul(RSub(mouse.y, vp.y), zoomRatio))
    IN  [x |-> newX, y |-> newY, zoom |-> newZoom]

Canvas_resetView == [x |-> R(0), y |-> R(0), zoom |-> R(1)]

Canvas_zoomIn(vp) ==
    [vp EXCEPT !.zoom = RMin(R(5), RMul(vp.zoom, Frac(3, 2)))]

Canvas_zoomOut(vp) ==
    [vp EXCEPT !.zoom = RMax(Frac(1, 10), RDiv(vp.zoom, Frac(3, 2)))]

\* fitToView: no-op when the canvas has no size
Canvas_fitToView(vp, size, nrows, ncols) ==
    IF size.width = 0 \/ size.height = 0 THEN vp
    ELSE
    LET gridWidth == R(ncols * (Canvas_baseCellSize + 1))
        gridHeight == R(nrows * (Canvas_baseCellSize + 1))
        scaleX == RDiv(R(size.width), gridWidth)
        scaleY == RDiv(R(size.height), gridHeight)
        scale == RMul(RMin(scaleX, scaleY), Frac(9, 10))
        offsetX == RDiv(RSub(R(size.width), RMul(gridWidth, scale)), R(2))
        offsetY == RDiv(RSub(R(size.height), RMul(gridHeight, scale)), R(2))
    IN  [x |-> offsetX, y |-> offsetY, zoom |-> scale]

(***************************************************************************)
(* MobileOptimizedCanvas: camera operations                                *)
(***************************************************************************)
Mobile_initialViewport == [x |-> R(0), y |-> R(0), zoom |-> Frac(3, 10)]

Mobile_zoomMin == Frac(1, 10)
Mobile_zoomMax == R(3)

Mobile_zoomIn(vp) ==
    [vp EXCEPT !.zoom = RMin(R(2), RMul(vp.zoom, Frac(7, 5)))]

Mobile_zoomOut(vp) ==
    [vp EXCEPT !.zoom = RMax(Frac(1, 10), RDiv(vp.zoom, Frac(7, 5)))]

Mobile_fitToView(vp, size, nrows, ncols) ==
    LET gridWidth == RMul(R(ncols), RAdd(R(Mobile_baseCellSize), Frac(1, 2)))
        gridHeight == RMul(R(nrows), RAdd(R(Mobile_baseCellSize), Frac(1, 2)))
        scaleX == RDiv(R(size.width), gridWidth)
        scaleY == RDiv(R(size.height), gridHeight)
        scale == RMul(RMin(scaleX, scaleY), Frac(4, 5))
        offsetX == RDiv(RSub(R(size.width), RMul(gridWidth, scale)), R(2))
        offsetY == RDiv(RSub(R(size.height), RMul(gridHeight, scale)), R(2))
    IN  [x |-> offsetX, y |-> offsetY, zoom |-> scale]

(***************************************************************************)
(* Pointer coordinates and the cell store                                  *)
(***************************************************************************)
\* getBoundingClientRect() of the canvas: its top-left corner in client space
RectLeft == 16
RectTop == 120

Pt(px, py) == [x |-> px, y |-> py]
\* the client point lying (a, b) pixels inside the canvas
ClientPt(a, b) == Pt(R(RectLeft + a), R(RectTop + b))

\* blocks is a function blockId -> status; an id outside its domain has no record
HasRecord(blocks, id) == id \in DOMAIN blocks

Sel(id, r, c) == [kind |-> "select", id |-> id, row |-> r, col |-> c]
Desel(id, r, c) == [kind |-> "deselect", id |-> id, row |-> r, col |-> c]

(***************************************************************************)
(* GameGrid: strategy selector and the per-cell backend                    *)
(***************************************************************************)
MobileBreakpoint == 768
SmallGridLimit == 1000
CanvasGridLimit == 5000

isMobile(innerWidth) == innerWidth < MobileBreakpoint

GameGrid_select_inclusive(totalBlocks, mobile) ==
    IF mobile /\ totalBlocks >= SmallGridLimit THEN "mobile"
    ELSE IF totalBlocks >= CanvasGridLimit THEN "canvas"
    ELSE IF totalBlocks >= SmallGridLimit THEN "virtualized"
    ELSE "percell"

GameGrid_select(totalBlocks, mobile) ==
    IF mobile /\ totalBlocks > SmallGridLimit THEN "mobile"
    ELSE IF totalBlocks > CanvasGridLimit THEN "canvas"
    ELSE IF totalBlocks > SmallGridLimit THEN "virtualized"
    ELSE "percell"

\* Block: onClick is wired only when isSelectable; a cell without a record is
\* rendered from a synthesized unsold record
Block_isSelectable(mode, blocks, id) ==
    mode = "select" /\ (HasRecord(blocks, id) => blocks[id] = "unsold")

GameGrid_handleBlockClick(mode, blocks, selected, id, ncols) ==
    IF mode # "select" THEN <<>>
    ELSE IF ~HasRecord(blocks, id) \/ blocks[id] # "unsold" THEN <<>>
    ELSE IF id \in selected THEN <<Desel(id, id \div ncols, id % ncols)>>
    ELSE <<Sel(id, id \div ncols, id % ncols)>>

(***************************************************************************)
(* MintingInterface: the caller's selection handlers                       *)
(***************************************************************************)
MintingInterface_handleBlockSelect(selected, id) == selected \cup {id}

MintingInterface_handleBlockDeselect_keep(selected, id) == selected

MintingInterface_handleBlockDeselect(selected, id) == selected \ {id}

MintingInterface_availableBlocks_all(blocks) == DOMAIN blocks

\* blocks.filter(b => b.status === 'unsold'), as block ids
MintingInterface_availableBlocks(blocks) ==
    {id \in DOMAIN blocks : blocks[id] = "unsold"}

\* selectRandomBlocks: the selections shuffled.slice(0, randomQuantity) can yield
MintingInterface_selectRandomBlocks(blocks, randomQuantity) ==
    LET available == MintingInterface_availableBlocks(blocks)
    IN  {S \in SUBSET available :
            Cardinality(S) = IMin(randomQuantity, Cardinality(available))}

\* the selection after the caller has handled the callbacks of one event
RECURSIVE ApplyCallbacks(_, _)
ApplyCallbacks(selected, events) ==
    IF events = <<>> THEN selected
    ELSE LET e == Head(events)
             next == IF e.kind = "select"
                       THEN MintingInterface_handleBlockSelect(selected, e.id)
                       ELSE MintingInterface_handleBlockDeselect(selected, e.id)
         IN  ApplyCallbacks(next, Tail(events))

(***************************************************************************)
(* CanvasGameGrid: hit testing (handleClick)                               *)
(***************************************************************************)
\* drawGrid: x = viewport.x + col * (cellSize + gap), y likewise
Canvas_cellOrigin(vp, row, col) ==
    Pt(RAdd(vp.x, RMul(R(col), Canvas_pitch(vp.zoom))),
       RAdd(vp.y, RMul(R(row), Canvas_pitch(vp.zoom))))

Canvas_hitCol_noGap(vp, pt) ==
    RFloor(RDiv(RSub(RSub(pt.x, R(RectLeft)), vp.x), Canvas_cellSize(vp.zoom)))

Canvas_hitCol(vp, pt) ==
    RFloor(RDiv(RSub(RSub(pt.x, R(RectLeft)), vp.x), Canvas_pitch(vp.zoom)))
Canvas_hitRow(vp, pt) ==
    RFloor(RDiv(RSub(RSub(pt.y, R(RectTop)), vp.y), Canvas_pitch(vp.zoom)))

Toggle(blocks, selected, id, row, col) ==
    IF ~HasRecord(blocks, id) \/ blocks[id] # "unsold" THEN <<>>
    ELSE IF id \in selected THEN <<Desel(id, row, col)>>
    ELSE <<Sel(id, row, col)>>

Canvas_handleClick_anyMode(mode, dragging, vp, pt, nrows, ncols, blocks, selected) ==
    IF dragging THEN <<>>
    ELSE LET col == Canvas_hitCol(vp, pt)
             row == Canvas_hitRow(vp, pt)
         IN  IF row >= 0 /\ row < nrows /\ col >= 0 /\ col < ncols
               THEN Toggle(blocks, selected, row * ncols + col, row, col)
               ELSE <<>>

Canvas_handleClick(mode, dragging, vp, pt, nrows, ncols, blocks, selected) ==
    IF mode # "select" \/ dragging THEN <<>>
    ELSE LET col == Canvas_hitCol(vp, pt)
             row == Canvas_hitRow(vp, pt)
         IN  IF row >= 0 /\ row < nrows /\ col >= 0 /\ col < ncols
               THEN Toggle(blocks, selected, row * ncols + col, row, col)
               ELSE <<>>

(***************************************************************************)
(* MobileOptimizedCanvas: touch handlers                                   *)
(***************************************************************************)
\* canvas.dataset: each entry is unset or holds the string of a number
Unset == [set |-> FALSE, v |-> R(0)]
Stored(q) == [set |-> TRUE, v |-> q]
EmptyDataset == [lastX |-> Unset, lastY |-> Unset, lastDistance |-> Unset]

\* parseInt of a decimal string: truncation toward zero
ParseInt(q) == IF q[1] >= 0 THEN R(q[1] \div q[2]) ELSE R(-((-q[1]) \div q[2]))

RECURSIVE SqrtFrom(_, _)
SqrtFrom(n, k) == IF k * k >= n THEN k ELSE SqrtFrom(n, k + 1)
\* Math.sqrt on a rational whose numerator and denominator are squares
RSqrt(q) == Frac(SqrtFrom(q[1], 0), SqrtFrom(q[2], 0))

TouchDistance(t1, t2) ==
    LET dx == RSub(t2.x, t1.x)
        dy == RSub(t2.y, t1.y)
    IN  RSqrt(RAdd(RMul(dx, dx), RMul(dy, dy)))

\* handleTouchMove, one finger while dragging
Mobile_pan(vp, ds, touch) ==
    LET lastX == ParseInt(IF ds.lastX.set THEN ds.lastX.v ELSE R(0))
        lastY == ParseInt(IF ds.lastY.set THEN ds.lastY.v ELSE R(0))
        deltaX == RSub(touch.x, lastX)
        deltaY == RSub(touch.y, lastY)
    IN  [vp EXCEPT !.x = RAdd(vp.x, deltaX), !.y = RAdd(vp.y, deltaY)]

\* handleTouchMove, two fingers: distance / lastDistance is Infinity or NaN
\* when lastDistance is 0
Mobile_pinchZoom(zoom, distance, ds) ==
    LET lastDistance == IF ds.lastDistance.set THEN ds.lastDistance.v ELSE distance
    IN  IF lastDistance = R(0)
          THEN IF distance = R(0) THEN zoom ELSE Mobile_zoomMax
          ELSE LET scale == RDiv(distance, lastDistance)
               IN  IF RLt(Frac(1, 100), RAbs(RSub(scale, R(1))))
                     THEN RMax(Mobile_zoomMin, RMin(Mobile_zoomMax, RMul(zoom, scale)))
                     ELSE zoom

Mobile_cellOrigin(vp, row, col) ==
    Pt(RAdd(vp.x, RMul(R(col), Mobile_pitch(vp.zoom))),
       RAdd(vp.y, RMul(R(row), Mobile_pitch(vp.zoom))))

Mobile_hitCol(vp, pt) ==
    RFloor(RDiv(RSub(RSub(pt.x, R(RectLeft)), vp.x), Mobile_pitch(vp.zoom)))
Mobile_hitRow(vp, pt) ==
    RFloor(RDiv(RSub(RSub(pt.y, R(RectTop)), vp.y), Mobile_pitch(vp.zoom)))

\* handleTouchEnd: dragging is isDragging as captured by the handler
Mobile_handleTouchEnd(mode, dragging, changed, vp, pt, nrows, ncols, blocks, selected) ==
    IF changed = 1 /\ ~dragging /\ mode = "select"
      THEN LET col == Mobile_hitCol(vp, pt)
               row == Mobile_hitRow(vp, pt)
           IN  IF row >= 0 /\ row < nrows /\ col >= 0 /\ col < ncols
                 THEN Toggle(blocks, selected, row * ncols + col, row, col)
                 ELSE <<>>
      ELSE <<>>

(***************************************************************************)
(* VirtualizedGameGrid                                                     *)
(***************************************************************************)
Virtualized_cellSize == 8
Virtualized_containerHeight == 600

Virtualized_initialRange(nrows, ncols) ==
    [startRow |-> 0, endRow |-> IMin(50, nrows),
     startCol |-> 0, endCol |-> IMin(50, ncols)]

Virtualized_handleScroll(scrollTop, scrollLeft, height, width, size, nrows, ncols) ==
    LET startRow == scrollTop \div (size + 1)
        startCol == scrollLeft \div (size + 1)
    IN  [startRow |-> startRow,
         endRow |-> IMin(nrows, startRow + RCeil(Frac(height, size + 1)) + 5),
         startCol |-> startCol,
         endCol |-> IMin(ncols, startCol + RCeil(Frac(width, size + 1)) + 5)]

Virtualized_handleBlockClick(mode, blocks, selected, id, ncols) ==
    IF mode # "select" THEN <<>>
    ELSE Toggle(blocks, selected, id, id \div ncols, id % ncols)

(***************************************************************************)
(* Canvas sizing (updateCanvasSize of both rasterized backends)            *)
(***************************************************************************)
Canvas_containerHeight == 600
Mobile_maxHeight == 400
Mobile_maxDpr == 2

\* env is [innerWidth, innerHeight, containerWidth, dpr]; dpr, the
\* devicePixelRatio, is a rational
Canvas_updateCanvasSize(e) ==
    [width |-> e.containerWidth, height |-> Canvas_containerHeight]

Mobile_updateCanvasSize(e) ==
    [width |-> IMin(e.containerWidth, e.innerWidth - 16),
     height |-> IMin(Mobile_maxHeight, RFloor(RMul(R(e.innerHeight), Frac(3, 5))))]

\* canvas.width and canvas.height, in device pixels
Canvas_pixels(size, e) ==
    [width |-> RFloor(RMul(R(size.width), e.dpr)),
     height |-> RFloor(RMul(R(size.height), e.dpr))]
Mobile_pixels(size, e) ==
    [width |-> RFloor(RMul(R(size.width), RMin(e.dpr, R(Mobile_maxDpr)))),
     height |-> RFloor(RMul(R(size.height), RMin(e.dpr, R(Mobile_maxDpr))))]

(***************************************************************************)
(* drawGrid: the range of cells the draw loop enumerates                   *)
(***************************************************************************)
Canvas_drawGrid(vp, px, nrows, ncols) ==
    LET pitch == Canvas_pitch(vp.zoom)
    IN  [startX |-> Canvas_visibleStart(vp.x, pitch),
         endX |-> Canvas_visibleEnd(vp.x, px.width, pitch, ncols),
         startY |-> Canvas_visibleStart(vp.y, pitch),
         endY |-> Canvas_visibleEnd(vp.y, px.height, pitch, nrows)]

Mobile_drawGrid(vp, px, nrows, ncols) ==
    LET pitch == Mobile_pitch(vp.zoom)
    IN  [startX |-> Mobile_visibleStart(vp.x, pitch),
         endX |-> Mobile_visibleEnd(vp.x, px.width, pitch, ncols),
         startY |-> Mobile_visibleStart(vp.y, pitch),
         endY |-> Mobile_visibleEnd(vp.y, px.height, pitch, nrows)]

\* the draw loops skip an enumerated cell that lies off the canvas; off is the
\* cell's x or y, side its cellSize, px canvas.width or canvas.height.
\* CanvasGameGrid: if (x + cellSize < 0 || ... || x > canvas.width) continue
Canvas_keepsCell(off, side, px) ==
    ~(RLt(RAdd(off, side), R(0)) \/ RLt(R(px), off))

\* MobileOptimizedCanvas: if (x + cellSize >= 0 && ... && x < canvas.width) push
Mobile_keepsCell(off, side, px) ==
    RLe(R(0), RAdd(off, side)) /\ RLt(off, R(px))

(***************************************************************************)
(* Colours, by the role the palette gives them.  The canvases fill a cell  *)
(* with fillColor and outline it with strokeColor; the markup backends     *)
(* give the element the border and background classes of                   *)
(* getBlockStatusColor.                                                    *)
(***************************************************************************)
\* utils: getBlockStatusColor(status, isOwned), the background it returns
getBlockStatusColor(status, isOwned) ==
    IF isOwned THEN "owned"
    ELSE IF status = "alive" THEN "alive"
    ELSE IF status = "eliminated" THEN "eliminated"
    ELSE "unsold"

\* CanvasGameGrid.drawGrid: fillColor of a cell
Canvas_fillColor(blocks, id) ==
    IF HasRecord(blocks, id) /\ blocks[id] = "alive" THEN "alive"
    ELSE IF HasRecord(blocks, id) /\ blocks[id] = "eliminated" THEN "eliminated"
    ELSE "unsold"

\* MobileOptimizedCanvas.drawGrid: fillColor of a cell
Mobile_fillColor(blocks, id) ==
    IF HasRecord(blocks, id) /\ blocks[id] = "alive" THEN "alive"
    ELSE IF HasRecord(blocks, id) /\ blocks[id] = "eliminated" THEN "eliminated"
    ELSE "unsold"

\* block.ownerId: the sold cells are owned by 0xa, cell 2 by 0xb; an unsold
\* cell has no ownerId
OwnerOf(blocks, id) ==
    IF ~HasRecord(blocks, id) \/ blocks[id] = "unsold" THEN "none"
    ELSE IF id = 2 THEN "0xb" ELSE "0xa"

\* GameGrid / VirtualizedGameGrid: a cell without a record is rendered from a
\* synthesized unsold record without ownerId; isOwned is ownerId === userAddress
Markup_baseColor(blocks, id, user) ==
    getBlockStatusColor(IF HasRecord(blocks, id) THEN blocks[id] ELSE "unsold",
                        OwnerOf(blocks, id) = user)

(***************************************************************************)
(* CanvasGameGrid: the animation loop effect.  armed is the set of ids of  *)
(* the requestAnimationFrame callbacks not yet run or cancelled, effect    *)
(* the animationId the cleanup of the last effect run will cancel (0: the  *)
(* effect returned without arming), next the id the next request gets.     *)
(***************************************************************************)
NoFrames == [armed |-> {}, effect |-> 0, next |-> 1]

\* const animationId = requestAnimationFrame(animate)
RequestFrame(r) == [r EXCEPT !.armed = @ \cup {r.next}, !.next = @ + 1]

\* return () => cancelAnimationFrame(animationId)
Canvas_animationCleanup(r) ==
    IF r.effect = 0 THEN r
    ELSE [r EXCEPT !.armed = @ \ {r.effect}, !.effect = 0]

\* the effect body: if (revealingBlocks.size === 0) return; else arm animate
Canvas_animationEffect(r, revealSize) ==
    IF revealSize = 0 THEN r
    ELSE [RequestFrame(r) EXCEPT !.effect = r.next]

\* a dependency of the effect changed: cleanup of the last run, then the body
Canvas_animationRerun(r, revealSize) ==
    Canvas_animationEffect(Canvas_animationCleanup(r), revealSize)

\* animate: drawGrid(); requestAnimationFrame(animate)
Canvas_animate(r, id) == RequestFrame([r EXCEPT !.armed = @ \ {id}])

(***************************************************************************)
(* useLazyGameData.  Loads are numbered in the order loadData starts them; *)
(* ctrl is the load whose AbortController is in abortControllerRef (0:     *)
(* none), aborted the loads whose signal is aborted, pc where each load    *)
(* waits.  Each piece of state records the load that wrote it last (by);   *)
(* game stands for game, currentRound and blocks, which are set together.  *)
(***************************************************************************)
Written(v, k) == [v |-> v, by |-> k]

Loader_initFor(n) ==
    [ctrl |-> 0, aborted |-> {}, started |-> 0, step |-> 0,
     pc |-> [k \in 1..n |-> "idle"],
     game |-> 0, orderBook |-> 0, userOrders |-> 0,
     loadProgress |-> Written(0, 0),
     loading |-> Written(TRUE, 0),
     error |-> Written(FALSE, 0)]

Responses == {"ok", "fail", "throw"}

\* catch (err) { if (!signal.aborted) setError(...) }
Loader_catch(l, k) ==
    IF k \in l.aborted THEN l ELSE [l EXCEPT !.error = Written(TRUE, k)]

\* finally { if (!signal.aborted) setLoading(false) }; the call is over
Loader_finally(l, k) ==
    [(IF k \in l.aborted THEN l ELSE [l EXCEPT !.loading = Written(FALSE, k)])
        EXCEPT !.pc[k] = "done"]

\* loadData up to its first await
Loader_loadData(l) ==
    LET k == l.started + 1
    IN  [l EXCEPT !.aborted = IF l.ctrl = 0 THEN @ ELSE @ \cup {l.ctrl},
                  !.ctrl = k,
                  !.started = k,
                  !.step = k,
                  !.loading = Written(TRUE, k),
                  !.error = Written(FALSE, k),
                  !.loadProgress = Written(25, k),
                  !.pc[k] = "game"]

\* gameAPI.getGame answers load k: lines 50-66, up to the next await
Loader_gameResponse(l, k, r) ==
    LET s == [l EXCEPT !.step = k]
    IN  IF r = "throw" THEN Loader_finally(Loader_catch(s, k), k)
        ELSE IF k \in l.aborted THEN Loader_finally(s, k)
        ELSE [s EXCEPT !.game = IF r = "ok" THEN k ELSE @,
                       !.loadProgress = Written(50, k),
                       !.pc[k] = "orderBook"]

\* orderAPI.getOrderBook answers load k: lines 66-76, up to the next await
Loader_orderBookResponse(l, k, r) ==
    LET s == [l EXCEPT !.step = k]
    IN  IF r = "throw" THEN Loader_finally(Loader_catch(s, k), k)
        ELSE LET t == [s EXCEPT !.orderBook = IF r = "ok" THEN k ELSE @,
                                !.loadProgress = Written(75, k)]
             IN  IF k \in l.aborted
                   THEN Loader_finally([t EXCEPT !.loadProgress = Written(100, k)], k)
                   ELSE [t EXCEPT !.pc[k] = "userOrders"]

\* orderAPI.getUserOrders answers load k: lines 76-95
Loader_userOrdersResponse(l, k, r) ==
    LET s == [l EXCEPT !.step = k,
                       !.userOrders = IF r = "ok" THEN k ELSE @,
                       !.loadProgress = Written(100, k)]
    IN  Loader_finally(s, k)

\* the cleanup on unmount: abortControllerRef.current.abort()
Loader_unmount(l) ==
    [l EXCEPT !.aborted = IF l.ctrl = 0 THEN @ ELSE @ \cup {l.ctrl}, !.step = 0]

(***************************************************************************)
(* useVRFWorker over useWebWorker and vrf-worker.js.  Calls are numbered;  *)
(* call k posts request k and returns promise k.  A request and its answer *)
(* are [kind, req]: kind "eliminations" stands for CALCULATE_ELIMINATIONS  *)
(* and its answer ELIMINATIONS_CALCULATED, "roundResults" for              *)
(* PROCESS_ROUND_RESULTS and ROUND_RESULTS_PROCESSED; req is the request   *)
(* the data belongs to.  promises[k] is -1 before call k, 0 while promise  *)
(* k is pending, and the request whose result it resolved with after.      *)
(***************************************************************************)
WorkerKinds == {"eliminations", "roundResults"}

VRF_initFor(n) ==
    [calls |-> 0,
     toWorker |-> <<>>,                             \* posted to the worker
     toMain |-> <<>>,                               \* posted by the worker
     messageHandlers |-> [t \in WorkerKinds |-> 0],  \* promise whose resolve is registered
     promises |-> [k \in 1..n |-> -1]]

\* resolve(data) of promise k: a settled promise stays as it is
Promise_resolve(promises, k, req) ==
    IF promises[k] = 0 THEN [promises EXCEPT ![k] = req] ELSE promises

\* calculateEliminations / processRoundResults: onMessage(type, resolve), postMessage
VRF_call(v, kind) ==
    LET k == v.calls + 1
    IN  [v EXCEPT !.calls = k,
                  !.promises[k] = 0,
                  !.messageHandlers[kind] = k,
                  !.toWorker = Append(@, [kind |-> kind, req |-> k])]

\* self.onmessage of the worker: compute the head request, post its answer
Worker_onmessage(v) ==
    [v EXCEPT !.toWorker = Tail(@), !.toMain = Append(@, Head(v.toWorker))]

\* workerRef.current.onmessage: the handler registered for the type gets the data
WebWorker_onmessage(v) ==
    LET m == Head(v.toMain)
        h == v.messageHandlers[m.kind]
    IN  [v EXCEPT !.toMain = Tail(@),
                  !.promises = IF h = 0 THEN @ ELSE Promise_resolve(@, h, m.req)]

(***************************************************************************)
(* WebSocketClient.  The sockets io() has created are numbered; state[i]   *)
(* is "none" before socket i exists, then "connecting", "connected" or     *)
(* "closed".  socket is this.socket (0: null), timers the reconnection     *)
(* timeouts not yet fired, scheduled the timeouts set since the last       *)
(* 'connect' event, last the last thing that happened.                     *)
(***************************************************************************)
maxReconnectAttempts == 5

WS_initFor(n) ==
    [socket |-> 0,
     state |-> [i \in 1..n |-> "none"],
     reconnectAttempts |-> 0,
     timers |-> 0,
     scheduled |-> 0,
     last |-> "new"]

WS_connected(w) == w.socket # 0 /\ w.state[w.socket] = "connected"

WS_created(w) == {i \in DOMAIN w.state : w.state[i] # "none"}

\* handleReconnection with the comparison <= : one attempt too many
WS_handleReconnection_inclusive(w) ==
    IF w.reconnectAttempts <= maxReconnectAttempts
      THEN [w EXCEPT !.reconnectAttempts = @ + 1, !.timers = @ + 1,
                     !.scheduled = @ + 1, !.last = "scheduled"]
      ELSE [w EXCEPT !.last = "max reached"]

WS_handleReconnection(w) ==
    IF w.reconnectAttempts < maxReconnectAttempts
      THEN [w EXCEPT !.reconnectAttempts = @ + 1, !.timers = @ + 1,
                     !.scheduled = @ + 1, !.last = "scheduled"]
      ELSE [w EXCEPT !.last = "max reached"]

\* connect(): the connected socket is reused, otherwise io() makes a new one
WS_connect(w) ==
    IF WS_connected(w) THEN [w EXCEPT !.last = "connect()"]
    ELSE LET i == Cardinality(WS_created(w)) + 1
         IN  [w EXCEPT !.socket = i, !.state[i] = "connecting", !.last = "connect()"]

\* socket.on('connect')
WS_onConnect(w, i) ==
    [w EXCEPT !.state[i] = "connected", !.reconnectAttempts = 0,
              !.scheduled = 0, !.last = "connect"]

\* socket.on('connect_error'); socket.io-client may keep trying by itself
WS_onConnectError(w, i, retrying) ==
    WS_handleReconnection(
        [w EXCEPT !.state[i] = IF retrying THEN "connecting" ELSE "closed"])

\* socket.on('disconnect', reason): only 'io server disconnect' is handled
WS_onDisconnect(w, i, reason, retrying) ==
    LET c == [w EXCEPT !.state[i] = IF retrying THEN "connecting" ELSE "closed",
                       !.last = "disconnect"]
    IN  IF reason = "io server disconnect" THEN WS_handleReconnection(c) ELSE c

\* disconnect(): this.socket?.disconnect(); this.socket = null
WS_disconnect(w) ==
    [w EXCEPT !.state = IF w.socket = 0 THEN @ ELSE [@ EXCEPT ![w.socket] = "closed"],
              !.socket = 0,
              !.last = "disconnect()"]

\* the timeout of handleReconnection: this.socket?.connect()
WS_reconnectTimeout(w) ==
    [w EXCEPT !.timers = @ - 1,
              !.state = IF w.socket # 0 /\ w.state[w.socket] = "closed"
                          THEN [@ EXCEPT ![w.socket] = "connecting"] ELSE @,
              !.last = "timeout"]

(***************************************************************************)
(* LiveReveal.  revealOrder is the sequence of the block ids of the round  *)
(* results in their shuffled order; last names the last operation.         *)
(***************************************************************************)
Live_init ==
    [isRevealing |-> FALSE, currentIndex |-> 0, revealedBlocks |-> {},
     revealOrder |-> <<>>, isPaused |-> FALSE, autoPlay |-> TRUE, last |-> "mount"]

\* the block ids of the first n entries of an order
FirstIds(order, n) == {order[i] : i \in 1..IMin(n, Len(order))}

\* the effect "Complete reveal", run when currentIndex or the length changed
Live_completeEffect(before, l) ==
    IF /\ <<l.currentIndex, Len(l.revealOrder)>> # <<before.currentIndex, Len(before.revealOrder)>>
       /\ l.currentIndex >= Len(l.revealOrder) /\ Len(l.revealOrder) > 0
      THEN [l EXCEPT !.isRevealing = FALSE]
      ELSE l

\* the effect on [roundResults, autoPlay]: a new shuffled order, back to 0
Live_initEffect(l, shuffled, autoPlay) ==
    Live_completeEffect(l,
        [l EXCEPT !.revealOrder = shuffled, !.currentIndex = 0, !.revealedBlocks = {},
                  !.isPaused = ~autoPlay, !.autoPlay = autoPlay, !.last = "results"])

\* the auto-reveal effect has a timeout pending
Live_timerSet(l) ==
    l.isRevealing /\ ~l.isPaused /\ l.currentIndex < Len(l.revealOrder)

\* the timeout of the auto-reveal effect
Live_timeout(l) ==
    Live_completeEffect(l,
        [l EXCEPT !.revealedBlocks = @ \cup {l.revealOrder[l.currentIndex + 1]},
                  !.currentIndex = @ + 1, !.last = "timeout"])

Live_startReveal(l) == [l EXCEPT !.isRevealing = TRUE, !.isPaused = FALSE, !.last = "start"]

Live_pauseReveal(l) == [l EXCEPT !.isPaused = TRUE, !.last = "pause"]

Live_resumeReveal(l) == [l EXCEPT !.isPaused = FALSE, !.last = "resume"]

\* skipToEnd that moves the index but leaves the revealed set alone
Live_skipToEnd_indexOnly(l) ==
    Live_completeEffect(l,
        [l EXCEPT !.currentIndex = Len(l.revealOrder), !.isRevealing = FALSE,
                  !.last = "skip"])

Live_skipToEnd(l) ==
    Live_completeEffect(l,
        [l EXCEPT !.revealedBlocks = FirstIds(l.revealOrder, Len(l.revealOrder)),
                  !.currentIndex = Len(l.revealOrder), !.isRevealing = FALSE,
                  !.last = "skip"])

Live_reset(l) ==
    Live_completeEffect(l,
        [l EXCEPT !.isRevealing = FALSE, !.isPaused = ~l.autoPlay, !.currentIndex = 0,
                  !.revealedBlocks = {}, !.last = "reset"])

(***************************************************************************)
(* RoundTimer.  round is currentRound.status ("none": no round), now the   *)
(* clock and tradeCloseTime the round's trade close time, in seconds.      *)
(***************************************************************************)
Timer_urgentBelow == 30

Timer_init ==
    [round |-> "none", tradeCloseTime |-> 0, now |-> 0,
     timeLeft |-> 0, roundStatus |-> "waiting", isUrgent |-> FALSE, last |-> "mount"]

\* calculateTimeLeft: the total it returns
Timer_total(t) ==
    IF t.round = "trading" THEN IMax(t.tradeCloseTime - t.now, 0) ELSE 0

\* calculateTimeLeft: its call of setRoundStatus, reached by the trading case only
Timer_setRoundStatus(t) ==
    IF t.round = "trading" THEN "trading" ELSE t.roundStatus

\* the effect body: setTimeLeft(calculateTimeLeft())
Timer_initialCalculation(t) ==
    [t EXCEPT !.timeLeft = Timer_total(t), !.roundStatus = Timer_setRoundStatus(t)]

\* the interval callback, a second later
Timer_tick(t) ==
    LET c == [t EXCEPT !.now = @ + 1]
    IN  [c EXCEPT !.timeLeft = Timer_total(c),
                  !.roundStatus = Timer_setRoundStatus(c),
                  !.isUrgent = Timer_total(c) > 0 /\ Timer_total(c) <= Timer_urgentBelow,
                  !.last = "tick"]

(***************************************************************************)
(* Bounds of the model                                                     *)
(***************************************************************************)
MaxCamOps == 2
MaxTouches == 2
MaxRenders == 1
MaxRandomQuantity == 2
MaxFrames == 4
MaxLoads == 2
MaxRequests == 3
MaxSockets == 2
MaxTimers == 2
MaxResults == 3
MaxClock == 40

(***************************************************************************)
(* State                                                                   *)
(***************************************************************************)
VARIABLES
    rows, cols,        \* game.config.gridSize
    env,               \* window and container metrics seen at the last render
    backend,           \* the component GameGrid returned
    mode,              \* the mode prop
    blocks,            \* the cell store: blockId -> status
    selectedBlocks,    \* MintingInterface.selectedBlocks
    revealingBlocks,   \* the revealingBlocks prop
    userAddress,       \* the userAddress prop; "none": no wallet connected
    context2d,         \* canvas.getContext('2d') returns a context
    cellSize,          \* VirtualizedGameGrid.cellSize
    viewport,          \* [x, y, zoom] of the mounted rasterized backend
    canvasSize,        \* canvasSize state, CSS pixels
    isDragging,
    dragStart,         \* CanvasGameGrid.dragStart
    dataset,           \* canvas.dataset of MobileOptimizedCanvas
    touches,           \* the active touch points, in e.touches order
    visibleRange,      \* VirtualizedGameGrid.visibleRange
    scroll,            \* scroll position of the virtualized container
    pendingClick,      \* the browser owes the canvas a click after mouseup
    fired,             \* callbacks invoked by the last event
    lastEvt,           \* the last pointer event: [type, pos]
    sess,              \* the current pointer session: [moved, multi]
    tog,               \* run of toggles of one cell: [id, before, n]
    camOps,            \* number of camera mutations so far
    raf,               \* animation-frame callbacks of CanvasGameGrid: [armed, effect, next]
    renders,           \* number of GameGrid re-renders so far
    loader,            \* useLazyGameData: its loads and the state they write
    vrf,               \* useVRFWorker: requests, listeners and the worker
    ws,                \* WebSocketClient: its sockets and reconnection counter
    live,              \* LiveReveal: the reveal of a round's results
    timer              \* RoundTimer: the round and the status it shows

grid == <<rows, cols, env, backend, mode, blocks, selectedBlocks, revealingBlocks,
          viewport, canvasSize, isDragging, dragStart, dataset, touches,
          visibleRange, scroll, pendingClick, fired, lastEvt, sess, tog,
          camOps, renders, raf, userAddress, context2d, cellSize>>

\* the hooks and components around the grid
services == <<loader, vrf, ws, live, timer>>

vars == <<grid, services>>

config == <<rows, cols, env, backend, mode, blocks, revealingBlocks, renders, raf,
            userAddress, context2d, services>>
virtualState == <<visibleRange, scroll, cellSize>>

Modes == {"view", "select", "reveal"}
Rasterized == {"canvas", "mobile"}

Envs ==
    { [innerWidth |-> 1280, innerHeight |-> 800, containerWidth |-> 800, dpr |-> R(1)],
      [innerWidth |-> 768, innerHeight |-> 600, containerWidth |-> 736, dpr |-> R(2)],
      [innerWidth |-> 375, innerHeight |-> 667, containerWidth |-> 343, dpr |-> R(2)],
      [innerWidth |-> 767, innerHeight |-> 500, containerWidth |-> 735, dpr |-> R(1)] }

Grid(r, c) == [rows |-> r, cols |-> c]
Grids ==
    { Grid(10, 10), Grid(25, 40), Grid(7, 143), Grid(40, 40), Grid(50, 100),
      Grid(3, 1667), Grid(80, 80), Grid(400, 500), Grid(1000, 1000) }

\* the records of the store: the top-left cells; every other cell has none
StoreFor(ncols) ==
    LET ids == {0, 1, 2, ncols, ncols + 1}
    IN  [id \in ids |->
            IF id = 1 THEN "alive" ELSE IF id = 2 THEN "eliminated" ELSE "unsold"]

\* cells a click on a markup backend is tried on (with and without a record)
ProbeIds(ncols) == {0, 1, 2, ncols, ncols + 1, ncols + 2}

\* pointer positions: cells (0,0), (0,1) and (1,1) of the mounted desktop grid and
\* a point right of it; for touch, a point outside the fitted grid and its cell (0,0)
MousePoints == {ClientPt(4, 4), ClientPt(13, 4), ClientPt(13, 13), ClientPt(796, 4)}
TapPoints == {ClientPt(4, 4), ClientPt(36, 64)}
\* touch positions whose mutual distances are whole numbers (32, 60, 68)
TouchPoints == {ClientPt(4, 4), ClientPt(36, 4), ClientPt(36, 64)}
WheelPoints == {ClientPt(4, 4), ClientPt(36, 64)}
WheelDeltas == {-4000, 100, 900}
ScrollPositions == {0, 90}

Nowhere == Pt(R(0), R(0))
\* a click on the element of cell id is recorded with the (col, row) of the cell
CellPt(id, ncols) == Pt(R(id % ncols), R(id \div ncols))
NoEvt == [type |-> "none", pos |-> Nowhere]
NoSess == [moved |-> FALSE, multi |-> FALSE]
NoTog == [id |-> -1, before |-> {}, n |-> 0]

\* state of a freshly mounted backend component
MountViewport(b, e, nrows, ncols) ==
    IF b = "mobile"
      THEN Mobile_fitToView(Mobile_initialViewport, Mobile_updateCanvasSize(e), nrows, ncols)
      ELSE Canvas_initialViewport

MountCanvasSize(b, e) ==
    IF b = "mobile" THEN Mobile_updateCanvasSize(e) ELSE Canvas_updateCanvasSize(e)

Users == {"none", "0xa", "0xb"}

Loader_init == Loader_initFor(MaxLoads)
VRF_init == VRF_initFor(MaxRequests)
WS_init == WS_initFor(MaxSockets)

InitFor(g, e, m, vp, u, c) ==
    /\ userAddress = u
    /\ context2d = c
    /\ cellSize = Virtualized_cellSize
    /\ loader = Loader_init
    /\ vrf = VRF_init
    /\ ws = WS_init
    /\ live = Live_init
    /\ timer = Timer_init
    /\ rows = g.rows /\ cols = g.cols
    /\ env = e
    /\ backend = GameGrid_select(g.rows * g.cols, isMobile(e.innerWidth))
    /\ mode = m
    /\ blocks = StoreFor(g.cols)
    /\ selectedBlocks = {}
    /\ revealingBlocks = {}
    /\ viewport = vp
    /\ canvasSize = MountCanvasSize(backend, e)
    /\ isDragging = FALSE
    /\ dragStart = Pt(R(0), R(0))
    /\ dataset = EmptyDataset
    /\ touches = <<>>
    /\ visibleRange = Virtualized_initialRange(g.rows, g.cols)
    /\ scroll = [top |-> 0, left |-> 0]
    /\ pendingClick = FALSE
    /\ fired = <<>>
    /\ lastEvt = NoEvt
    /\ sess = NoSess
    /\ tog = NoTog
    /\ camOps = 0
    /\ renders = 0
    /\ raf = NoFrames

InitState(g, e, m, vp) == InitFor(g, e, m, vp, "0xa", TRUE)

\* the state right after GameGrid and the backend it chose have mounted
InitWith(g, e, m) ==
    InitState(g, e, m,
              MountViewport(GameGrid_select(g.rows * g.cols, isMobile(e.innerWidth)),
                            e, g.rows, g.cols))

(***************************************************************************)
(* Bookkeeping common to all events: the callbacks fired, the caller's     *)
(* update of the selection, and the run of toggles of one cell             *)
(***************************************************************************)
Emit(events, evt) ==
    /\ revealingBlocks = {}
    /\ fired' = events
    /\ lastEvt' = evt
    /\ selectedBlocks' = ApplyCallbacks(selectedBlocks, events)
    /\ tog' = IF events = <<>> THEN tog
              ELSE IF tog.n = 1 /\ tog.id = events[1].id
                THEN [tog EXCEPT !.n = 2]
                ELSE [id |-> events[1].id, before |-> selectedBlocks, n |-> 1]

Evt(t, p) == [type |-> t, pos |-> p]

CameraOp == camOps < MaxCamOps /\ camOps' = camOps + 1

(***************************************************************************)
(* CanvasGameGrid: mouse and wheel events, control buttons                 *)
(***************************************************************************)
MouseDown(p) ==
    /\ backend = "canvas" /\ ~isDragging /\ ~pendingClick
    /\ isDragging' = TRUE
    /\ dragStart' = p
    /\ sess' = NoSess
    /\ Emit(<<>>, Evt("down", Nowhere))
    /\ UNCHANGED <<config, virtualState, viewport, canvasSize, dataset, touches,
                   pendingClick, camOps>>

MouseMove(p) ==
    /\ backend = "canvas" /\ isDragging /\ p # dragStart
    /\ CameraOp
    /\ viewport' = [viewport EXCEPT !.x = RAdd(viewport.x, RSub(p.x, dragStart.x)),
                                     !.y = RAdd(viewport.y, RSub(p.y, dragStart.y))]
    /\ dragStart' = p
    /\ sess' = [sess EXCEPT !.moved = TRUE]
    /\ Emit(<<>>, Evt("move", Nowhere))
    /\ UNCHANGED <<config, virtualState, canvasSize, isDragging, dataset, touches,
                   pendingClick>>

\* two mousemove events dispatched before the component renders again: both
\* run the handler of the last render, whose dragStart is the one of that
\* render; the setViewport updaters queue up and setDragStart keeps the last
MouseMoveBatch(p1, p2) ==
    /\ backend = "canvas" /\ isDragging /\ p1 # dragStart /\ p2 # p1
    /\ CameraOp
    /\ viewport' = [viewport EXCEPT
                       !.x = RAdd(RAdd(viewport.x, RSub(p1.x, dragStart.x)),
                                  RSub(p2.x, dragStart.x)),
                       !.y = RAdd(RAdd(viewport.y, RSub(p1.y, dragStart.y)),
                                  RSub(p2.y, dragStart.y))]
    /\ dragStart' = p2
    /\ sess' = [sess EXCEPT !.moved = TRUE]
    /\ Emit(<<>>, Evt("move", Nowhere))
    /\ UNCHANGED <<config, virtualState, canvasSize, isDragging, dataset, touches,
                   pendingClick>>

\* the button is released over the canvas: the browser then dispatches click
MouseUp ==
    /\ backend = "canvas" /\ isDragging
    /\ isDragging' = FALSE
    /\ pendingClick' = TRUE
    /\ Emit(<<>>, Evt("up", Nowhere))
    /\ UNCHANGED <<config, virtualState, viewport, canvasSize, dragStart, dataset,
                   touches, sess, camOps>>

Click ==
    /\ backend = "canvas" /\ pendingClick
    /\ pendingClick' = FALSE
    /\ Emit(Canvas_handleClick(mode, isDragging, viewport, dragStart, rows, cols,
                               blocks, selectedBlocks),
            Evt(IF sess.moved THEN "release" ELSE "tap", dragStart))
    /\ UNCHANGED <<config, virtualState, viewport, canvasSize, isDragging, dragStart,
                   dataset, touches, sess, camOps>>

Wheel(p, deltaY) ==
    /\ backend = "canvas" /\ ~pendingClick
    /\ isDragging => p = dragStart
    /\ CameraOp
    /\ viewport' = Canvas_handleWheel(viewport,
                        Pt(RSub(p.x, R(RectLeft)), RSub(p.y, R(RectTop))), deltaY)
    /\ Emit(<<>>, Evt("wheel", p))
    /\ UNCHANGED <<config, virtualState, canvasSize, isDragging, dragStart, dataset,
                   touches, pendingClick, sess>>

CanvasButton(newViewport) ==
    /\ backend = "canvas" /\ ~isDragging /\ ~pendingClick
    /\ CameraOp
    /\ viewport' = newViewport
    /\ Emit(<<>>, Evt("button", Nowhere))
    /\ UNCHANGED <<config, virtualState, canvasSize, isDragging, dragStart, dataset,
                   touches, pendingClick, sess>>

CanvasZoomIn == CanvasButton(Canvas_zoomIn(viewport))
CanvasZoomOut == CanvasButton(Canvas_zoomOut(viewport))
CanvasFitToView == CanvasButton(Canvas_fitToView(viewport, canvasSize, rows, cols))
CanvasResetView == CanvasButton(Canvas_resetView)

(***************************************************************************)
(* MobileOptimizedCanvas: touch events, control buttons                    *)
(***************************************************************************)
Positions(ts) == {ts[i] : i \in 1..Len(ts)}
RemoveAt(ts, i) == SubSeq(ts, 1, i - 1) \o SubSeq(ts, i + 1, Len(ts))

TouchStart(p) ==
    /\ backend = "mobile" /\ Len(touches) < MaxTouches /\ p \notin Positions(touches)
    /\ touches' = Append(touches, p)
    /\ IF Len(touches') = 1
         THEN /\ isDragging' = TRUE
              /\ dataset' = [dataset EXCEPT !.lastX = Stored(p.x), !.lastY = Stored(p.y)]
         ELSE UNCHANGED <<isDragging, dataset>>
    /\ sess' = IF touches = <<>> THEN NoSess ELSE [sess EXCEPT !.multi = TRUE]
    /\ Emit(<<>>, Evt("down", Nowhere))
    /\ UNCHANGED <<config, virtualState, viewport, canvasSize, dragStart,
                   pendingClick, camOps>>

TouchMoveTo(i, p) ==
    /\ backend = "mobile" /\ i \in 1..Len(touches) /\ p # touches[i]
    /\ touches' = [touches EXCEPT ![i] = p]
    /\ IF Len(touches) = 1 /\ isDragging
         THEN /\ CameraOp
              /\ viewport' = Mobile_pan(viewport, dataset, p)
              /\ dataset' = [dataset EXCEPT !.lastX = Stored(p.x), !.lastY = Stored(p.y)]
         ELSE IF Len(touches) = 2
         THEN LET distance == TouchDistance(touches'[1], touches'[2])
                  newZoom == Mobile_pinchZoom(viewport.zoom, distance, dataset)
              IN  /\ viewport' = [viewport EXCEPT !.zoom = newZoom]
                  /\ dataset' = [dataset EXCEPT !.lastDistance = Stored(distance)]
                  /\ IF newZoom # viewport.zoom THEN CameraOp ELSE camOps' = camOps
         ELSE UNCHANGED <<viewport, dataset, camOps>>
    /\ sess' = [sess EXCEPT !.moved = TRUE]
    /\ Emit(<<>>, Evt("move", Nowhere))
    /\ UNCHANGED <<config, virtualState, canvasSize, isDragging, dragStart, pendingClick>>

\* a finger moves to a point where no finger is
TouchMove(i, p) == p \notin Positions(touches) /\ TouchMoveTo(i, p)

\* a finger moves to the point another finger reports
TouchMeet(i) ==
    \E j \in 1..Len(touches) : j # i /\ TouchMoveTo(i, touches[j])

TouchEnd(i) ==
    /\ backend = "mobile" /\ i \in 1..Len(touches)
    /\ touches' = RemoveAt(touches, i)
    /\ isDragging' = FALSE
    /\ Emit(Mobile_handleTouchEnd(mode, isDragging, 1, viewport, touches[i], rows, cols,
                                   blocks, selectedBlocks),
            IF touches' # <<>> THEN Evt("lift", touches[i])
            ELSE Evt(IF sess.moved \/ sess.multi THEN "release" ELSE "tap", touches[i]))
    /\ UNCHANGED <<config, virtualState, viewport, canvasSize, dragStart, dataset,
                   pendingClick, sess, camOps>>

MobileButton(newViewport) ==
    /\ backend = "mobile" /\ touches = <<>>
    /\ CameraOp
    /\ viewport' = newViewport
    /\ Emit(<<>>, Evt("button", Nowhere))
    /\ UNCHANGED <<config, virtualState, canvasSize, isDragging, dragStart, dataset,
                   touches, pendingClick, sess>>

MobileZoomIn == MobileButton(Mobile_zoomIn(viewport))
MobileZoomOut == MobileButton(Mobile_zoomOut(viewport))
MobileFitToView == MobileButton(Mobile_fitToView(viewport, canvasSize, rows, cols))

\* onMouseLeave={handleMouseUp}: the pointer leaves the canvas with the button
\* down; the release then happens elsewhere and the canvas gets no click
MouseLeave ==
    /\ backend = "canvas" /\ isDragging
    /\ isDragging' = FALSE
    /\ Emit(<<>>, Evt("leave", Nowhere))
    /\ UNCHANGED <<config, virtualState, viewport, canvasSize, dragStart, dataset,
                   touches, pendingClick, sess, camOps>>

\* the browser cancels the active touches (touchcancel): the canvas registers no
\* handler for it, so no state of the component changes
TouchCancel ==
    /\ backend = "mobile" /\ touches # <<>>
    /\ touches' = <<>>
    /\ Emit(<<>>, Evt("cancel", Nowhere))
    /\ UNCHANGED <<config, virtualState, viewport, canvasSize, isDragging, dragStart,
                   dataset, pendingClick, sess, camOps>>

(***************************************************************************)
(* Markup backends: clicks on cell elements, scrolling                     *)
(***************************************************************************)
local == <<viewport, canvasSize, isDragging, dragStart, dataset, touches, pendingClick,
           sess, camOps>>

BlockClick(id) ==
    /\ backend = "percell" /\ id \in 0..(rows * cols - 1)
    /\ Block_isSelectable(mode, blocks, id)
    /\ Emit(GameGrid_handleBlockClick(mode, blocks, selectedBlocks, id, cols),
            Evt("click", CellPt(id, cols)))
    /\ UNCHANGED <<config, virtualState, local>>

VirtualizedBlockClick(id) ==
    /\ backend = "virtualized"
    /\ id \div cols \in visibleRange.startRow..(visibleRange.endRow - 1)
    /\ id % cols \in visibleRange.startCol..(visibleRange.endCol - 1)
    /\ Block_isSelectable(mode, blocks, id)
    /\ Emit(Virtualized_handleBlockClick(mode, blocks, selectedBlocks, id, cols),
            Evt("click", CellPt(id, cols)))
    /\ UNCHANGED <<config, virtualState, local>>

VirtualizedScroll(top, left) ==
    /\ backend = "virtualized" /\ [top |-> top, left |-> left] # scroll
    /\ top <= IMax(0, rows * (cellSize + 1) - Virtualized_containerHeight)
    /\ left <= IMax(0, cols * (cellSize + 1) - env.containerWidth)
    /\ scroll' = [top |-> top, left |-> left]
    /\ visibleRange' = Virtualized_handleScroll(top, left, Virtualized_containerHeight,
                            env.containerWidth, cellSize, rows, cols)
    /\ Emit(<<>>, Evt("scroll", Nowhere))
    /\ UNCHANGED <<config, local, cellSize>>

\* the Cell Size slider: onChange={(e) => setCellSize(parseInt(e.target.value))};
\* the new content still reaches the scroll position, so no scroll event follows
VirtualizedSetCellSize(n) ==
    /\ backend = "virtualized" /\ n # cellSize
    /\ scroll.top <= IMax(0, rows * (n + 1) - Virtualized_containerHeight)
    /\ scroll.left <= IMax(0, cols * (n + 1) - env.containerWidth)
    /\ cellSize' = n
    /\ Emit(<<>>, Evt("cellsize", Nowhere))
    /\ UNCHANGED <<config, local, visibleRange, scroll>>

\* MintingInterface.clearSelection
ClearSelection ==
    /\ mode = "select" /\ selectedBlocks # {} /\ ~pendingClick
    /\ selectedBlocks' = {}
    /\ tog' = NoTog
    /\ fired' = <<>>
    /\ lastEvt' = Evt("clear", Nowhere)
    /\ UNCHANGED <<config, virtualState, local>>

\* MintingInterface "Preview Random" with randomQuantity = q
SelectRandomBlocks(q) ==
    /\ mode = "select" /\ ~pendingClick
    /\ \E S \in MintingInterface_selectRandomBlocks(blocks, q) :
          /\ S # selectedBlocks
          /\ selectedBlocks' = S
    /\ tog' = NoTog
    /\ fired' = <<>>
    /\ lastEvt' = Evt("random", Nowhere)
    /\ UNCHANGED <<config, virtualState, local>>

\* the store the caller passes down changes: an unsold cell is minted
BlockMinted(id) ==
    /\ HasRecord(blocks, id) /\ blocks[id] = "unsold"
    /\ ~pendingClick
    /\ blocks' = [blocks EXCEPT ![id] = "alive"]
    /\ fired' = <<>>
    /\ lastEvt' = Evt("minted", Nowhere)
    /\ raf' = IF backend = "canvas"
                THEN Canvas_animationRerun(raf, Cardinality(revealingBlocks))
                ELSE raf
    /\ UNCHANGED <<rows, cols, env, backend, mode, revealingBlocks, renders, userAddress, context2d, services,
                   selectedBlocks, tog, virtualState, local>>

(***************************************************************************)
(* GameGrid re-render after the grid size or the window changed            *)
(***************************************************************************)
GameGridRender(g, e) ==
    /\ renders < MaxRenders
    /\ ~isDragging /\ ~pendingClick /\ touches = <<>>
    /\ <<g.rows, g.cols, e>> # <<rows, cols, env>>
    /\ renders' = renders + 1
    /\ rows' = g.rows /\ cols' = g.cols /\ env' = e
    /\ backend' = GameGrid_select(g.rows * g.cols, isMobile(e.innerWidth))
    /\ blocks' = StoreFor(g.cols)
    /\ IF backend' # backend
         THEN \* another component type: the old one unmounts, the new one mounts
              /\ viewport' = MountViewport(backend', e, g.rows, g.cols)
              /\ canvasSize' = MountCanvasSize(backend', e)
              /\ dragStart' = Pt(R(0), R(0))
              /\ dataset' = EmptyDataset
              /\ visibleRange' = Virtualized_initialRange(g.rows, g.cols)
              /\ scroll' = [top |-> 0, left |-> 0]
              /\ cellSize' = Virtualized_cellSize
         ELSE \* same component: its resize listener and effects run
              /\ canvasSize' = IF e = env THEN canvasSize ELSE MountCanvasSize(backend, e)
              /\ viewport' = IF backend = "mobile"
                               THEN Mobile_fitToView(viewport, canvasSize', g.rows, g.cols)
                               ELSE viewport
              /\ UNCHANGED <<dragStart, dataset, visibleRange, scroll, cellSize>>
    /\ raf' = IF backend = "canvas" /\ backend' # "canvas"
                  THEN Canvas_animationCleanup(raf)
                ELSE IF backend' = "canvas"
                  THEN Canvas_animationRerun(raf, Cardinality(revealingBlocks))
                ELSE raf
    /\ fired' = <<>>
    /\ lastEvt' = Evt("render", Nowhere)
    /\ UNCHANGED <<mode, revealingBlocks, userAddress, context2d, services, selectedBlocks, isDragging, touches,
                   pendingClick, sess, tog, camOps>>

(***************************************************************************)
(* Specifications                                                          *)
(***************************************************************************)
DesktopEnv == [innerWidth |-> 1280, innerHeight |-> 800, containerWidth |-> 800, dpr |-> R(1)]
PhoneEnv == [innerWidth |-> 375, innerHeight |-> 667, containerWidth |-> 343, dpr |-> R(2)]

CanvasPointer(P) ==
    \/ \E p \in P : MouseDown(p)
    \/ \E p \in P : MouseMove(p)
    \/ MouseUp
    \/ Click

CanvasControls ==
    \/ \E p \in WheelPoints, d \in WheelDeltas : Wheel(p, d)
    \/ CanvasZoomIn
    \/ CanvasZoomOut
    \/ CanvasFitToView
    \/ CanvasResetView

MobilePointer(P) ==
    \/ \E p \in P : TouchStart(p)
    \/ \E i \in 1..MaxTouches, p \in P : TouchMove(i, p)
    \/ \E i \in 1..MaxTouches : TouchEnd(i)

MobileControls ==
    \/ MobileZoomIn
    \/ MobileZoomOut
    \/ MobileFitToView

MarkupEvents ==
    \/ \E id \in ProbeIds(cols) : BlockClick(id)
    \/ \E id \in ProbeIds(cols) : VirtualizedBlockClick(id)
    \/ \E t \in ScrollPositions, l \in ScrollPositions : VirtualizedScroll(t, l)
    \/ ClearSelection

CallerEvents ==
    \/ \E q \in 1..MaxRandomQuantity : SelectRandomBlocks(q)
    \/ BlockMinted(0)

\* the camera of the rasterized backends, from mount
CameraGrids == {Grid(40, 40), Grid(80, 80), Grid(400, 500), Grid(1000, 1000)}
InitCamera ==
    \E g \in CameraGrids, e \in {DesktopEnv, PhoneEnv} :
        /\ GameGrid_select(g.rows * g.cols, isMobile(e.innerWidth)) \in Rasterized
        /\ InitWith(g, e, "view")
NextCamera ==
    \/ CanvasPointer({ClientPt(4, 4), ClientPt(36, 64)})
    \/ CanvasControls
    \/ MobilePointer(TouchPoints)
    \/ MobileControls
SpecCamera == InitCamera /\ [][NextCamera]_vars

\* the culler of the rasterized backends over sampled camera states: offsets are
\* unconstrained, zooms are values the zoom operations clamp to or pass through
OffsetSamples == {R(-100000), R(-792), R(-23), R(0), Frac(7, 3), R(812), R(100000)}
OffsetSamplesY == {R(-100000), R(-23), R(0), Frac(7, 3), R(100000)}
ZoomSamples(b) ==
    IF b = "canvas" THEN {Frac(1, 10), Frac(1, 4), Frac(9, 10), R(1), R(5)}
                    ELSE {Frac(1, 10), Frac(1, 2), R(1), Frac(20, 7), R(3)}
InitCull ==
    \E g \in CameraGrids, e \in Envs, x \in OffsetSamples, y \in OffsetSamplesY :
        LET b == GameGrid_select(g.rows * g.cols, isMobile(e.innerWidth))
        IN  /\ b \in Rasterized
            /\ \E z \in ZoomSamples(b) : InitState(g, e, "view", [x |-> x, y |-> y, zoom |-> z])
NextCull ==
    \/ CanvasZoomIn
    \/ CanvasZoomOut
    \/ CanvasFitToView
    \/ CanvasResetView
    \/ MobileControls
SpecCull == InitCull /\ [][NextCull]_vars

\* pointer input on the four backends, in every mode
InitGesture ==
    \E ge \in {<<Grid(10, 10), DesktopEnv>>, <<Grid(10, 10), PhoneEnv>>,
               <<Grid(7, 143), DesktopEnv>>, <<Grid(80, 80), DesktopEnv>>,
               <<Grid(80, 80), PhoneEnv>>},
       m \in Modes : InitWith(ge[1], ge[2], m)
NextGesture == CanvasPointer(MousePoints) \/ MobilePointer(TapPoints) \/ MarkupEvents
SpecGesture == InitGesture /\ [][NextGesture]_vars

\* pointer sessions on the rasterized backends, with lost pointers
InitSession ==
    \E e \in {DesktopEnv, PhoneEnv}, m \in {"view", "select"} :
        InitWith(Grid(80, 80), e, m)
NextSession ==
    \/ CanvasPointer({ClientPt(4, 4), ClientPt(36, 64)})
    \/ MouseLeave
    \/ MobilePointer(TouchPoints)
    \/ TouchCancel
SpecSession == InitSession /\ [][NextSession]_vars

\* the grid inside MintingInterface: pointer input, random preview, store updates
InitMint ==
    \E ge \in {<<Grid(10, 10), DesktopEnv>>, <<Grid(7, 143), DesktopEnv>>,
               <<Grid(80, 80), DesktopEnv>>, <<Grid(80, 80), PhoneEnv>>} :
        InitWith(ge[1], ge[2], "select")
NextMint == NextGesture \/ CallerEvents
SpecMint == InitMint /\ [][NextMint]_vars

(***************************************************************************)
(* The reveal animation: LiveReveal hands its revealedBlocks to GameGrid,  *)
(* the canvas keeps redrawing from an animation-frame loop while the set  *)
(* is not empty.  Emit applies to a grid that reveals nothing; the events  *)
(* of a revealing canvas are the actions below, which run the effect.      *)
(***************************************************************************)
RevealSets == {{}, {0}, {0, 1}}

\* LiveReveal: setRevealedBlocks(...) and the re-render of the grid
LiveReveal_setRevealedBlocks(S) ==
    /\ mode = "reveal" /\ ~isDragging /\ ~pendingClick /\ touches = <<>>
    /\ S # revealingBlocks
    /\ raf.next <= MaxFrames
    /\ revealingBlocks' = S
    /\ raf' = IF backend = "canvas"
                THEN Canvas_animationRerun(raf, Cardinality(S))
                ELSE raf
    /\ fired' = <<>>
    /\ lastEvt' = Evt("reveal", Nowhere)
    /\ UNCHANGED <<rows, cols, env, backend, mode, blocks, renders, selectedBlocks, userAddress, context2d, services,
                   tog, virtualState, local, camOps>>

\* the browser runs one armed callback: animate
AnimationFrame(id) ==
    /\ id \in raf.armed
    /\ raf.next <= MaxFrames
    /\ raf' = Canvas_animate(raf, id)
    /\ fired' = <<>>
    /\ lastEvt' = Evt("frame", Nowhere)
    /\ UNCHANGED <<rows, cols, env, backend, mode, blocks, revealingBlocks, renders, userAddress, context2d, services,
                   selectedBlocks, tog, virtualState, local, camOps>>

\* a zoom button of a canvas that reveals: the viewport changes, drawGrid is
\* made anew and the animation effect, which depends on it, runs again
RevealingButton(newViewport) ==
    /\ backend = "canvas" /\ ~isDragging /\ ~pendingClick
    /\ revealingBlocks # {}
    /\ newViewport # viewport
    /\ raf.next <= MaxFrames
    /\ CameraOp
    /\ viewport' = newViewport
    /\ raf' = Canvas_animationRerun(raf, Cardinality(revealingBlocks))
    /\ fired' = <<>>
    /\ lastEvt' = Evt("button", Nowhere)
    /\ UNCHANGED <<rows, cols, env, backend, mode, blocks, revealingBlocks, renders, userAddress, context2d, services,
                   selectedBlocks, tog, virtualState, canvasSize, isDragging,
                   dragStart, dataset, touches, pendingClick, sess>>

InitReveal == \E e \in {DesktopEnv, PhoneEnv} : InitWith(Grid(80, 80), e, "reveal")
NextReveal ==
    \/ \E S \in RevealSets : LiveReveal_setRevealedBlocks(S)
    \/ \E id \in 1..MaxFrames : AnimationFrame(id)
    \/ RevealingButton(Canvas_zoomIn(viewport))
    \/ RevealingButton(Canvas_zoomOut(viewport))
    \/ \E g \in {Grid(10, 10), Grid(80, 80)}, e \in {DesktopEnv, PhoneEnv} :
          GameGridRender(g, e)
SpecReveal == InitReveal /\ [][NextReveal]_vars

\* pinches whose fingers may come to report the same point
InitPinch == InitWith(Grid(80, 80), PhoneEnv, "view")
NextPinch ==
    \/ MobilePointer(TouchPoints)
    \/ \E i \in 1..MaxTouches : TouchMeet(i)
SpecPinch == InitPinch /\ [][NextPinch]_vars

\* the grid as every viewer sees it: the owner of cell 1, of cell 2, and a
\* visitor without a wallet
InitPaint ==
    \E g \in Grids, e \in Envs, u \in Users :
        InitFor(g, e, "select",
                MountViewport(GameGrid_select(g.rows * g.cols, isMobile(e.innerWidth)),
                              e, g.rows, g.cols), u, TRUE)
NextPaint ==
    \/ \E id \in ProbeIds(cols) : BlockClick(id)
    \/ \E id \in ProbeIds(cols) : VirtualizedBlockClick(id)
    \/ CanvasPointer({ClientPt(4, 4), ClientPt(36, 64)})
    \/ MobilePointer({ClientPt(4, 4), ClientPt(36, 64)})
SpecPaint == InitPaint /\ [][NextPaint]_vars

\* GameGrid given configurations with and without a non-positive dimension
ConfigGrids ==
    {Grid(0, 10), Grid(10, 0), Grid(-1, 10), Grid(0, 0), Grid(10, 10), Grid(50, 100)}
InitConfig ==
    \E g \in ConfigGrids, e \in {DesktopEnv, PhoneEnv}, m \in Modes : InitWith(g, e, m)
NextConfig ==
    \/ \E g \in ConfigGrids, e \in {DesktopEnv, PhoneEnv} : GameGridRender(g, e)
    \/ MarkupEvents
SpecConfig == InitConfig /\ [][NextConfig]_vars

\* browsers that do and do not hand the canvas a 2d context
InitContext ==
    \E g \in {Grid(80, 80), Grid(400, 500)}, e \in {DesktopEnv, PhoneEnv}, c \in BOOLEAN :
        InitFor(g, e, "view",
                MountViewport(GameGrid_select(g.rows * g.cols, isMobile(e.innerWidth)),
                              e, g.rows, g.cols), "0xa", c)
NextContext ==
    \/ CanvasControls
    \/ MobileControls
    \/ \E g \in {Grid(80, 80), Grid(400, 500)}, e \in {DesktopEnv, PhoneEnv} :
          GameGridRender(g, e)
SpecContext == InitContext /\ [][NextContext]_vars

\* pans with whole and fractional pointer coordinates, and with move events
\* that outrun the render
PanPoints == {ClientPt(4, 4), ClientPt(36, 64), Pt(Frac(81, 2), Frac(249, 2))}
InitPan == \E e \in {DesktopEnv, PhoneEnv} : InitWith(Grid(80, 80), e, "view")
NextPan ==
    \/ CanvasPointer(PanPoints)
    \/ \E p1 \in PanPoints, p2 \in PanPoints : MouseMoveBatch(p1, p2)
    \/ MobilePointer(PanPoints)
SpecPan == InitPan /\ [][NextPan]_vars

\* the virtualized backend: scrolling, the cell size slider, clicks
CellSizes == {4, 8, 20}
InitVirtual ==
    \E g \in {Grid(40, 40), Grid(50, 100)}, m \in Modes : InitWith(g, DesktopEnv, m)
NextVirtual ==
    \/ \E t \in ScrollPositions, l \in ScrollPositions : VirtualizedScroll(t, l)
    \/ \E n \in CellSizes : VirtualizedSetCellSize(n)
    \/ \E id \in ProbeIds(cols) : VirtualizedBlockClick(id)
SpecVirtual == InitVirtual /\ [][NextVirtual]_vars

\* the draw loop over sampled cameras, on displays of devicePixelRatio 1 and 2
\* and in a desktop browser zoomed out to 50 % (devicePixelRatio 1/2)
ZoomedOutEnv ==
    [innerWidth |-> 2560, innerHeight |-> 1600, containerWidth |-> 800, dpr |-> Frac(1, 2)]
InitDraw ==
    \E g \in {Grid(80, 80), Grid(400, 500)}, e \in {DesktopEnv, PhoneEnv, ZoomedOutEnv},
       x \in OffsetSamples, y \in OffsetSamplesY :
        LET b == GameGrid_select(g.rows * g.cols, isMobile(e.innerWidth))
        IN  \E z \in ZoomSamples(b) : InitState(g, e, "view", [x |-> x, y |-> y, zoom |-> z])
SpecDraw == InitDraw /\ [][NextCull]_vars

(***************************************************************************)
(* useLazyGameData: loadData (from the effect or refresh), the answers of  *)
(* the three requests of a load, the unmount                               *)
(***************************************************************************)
LoadData ==
    /\ userAddress # "none"
    /\ loader.started < MaxLoads
    /\ loader' = Loader_loadData(loader)
    /\ UNCHANGED <<grid, vrf, ws, live, timer>>

GameResponse(k, r) ==
    /\ k \in DOMAIN loader.pc /\ loader.pc[k] = "game"
    /\ loader' = Loader_gameResponse(loader, k, r)
    /\ UNCHANGED <<grid, vrf, ws, live, timer>>

OrderBookResponse(k, r) ==
    /\ k \in DOMAIN loader.pc /\ loader.pc[k] = "orderBook"
    /\ loader' = Loader_orderBookResponse(loader, k, r)
    /\ UNCHANGED <<grid, vrf, ws, live, timer>>

UserOrdersResponse(k, r) ==
    /\ k \in DOMAIN loader.pc /\ loader.pc[k] = "userOrders"
    /\ loader' = Loader_userOrdersResponse(loader, k, r)
    /\ UNCHANGED <<grid, vrf, ws, live, timer>>

LoaderUnmount ==
    /\ loader.ctrl # 0 /\ loader.ctrl \notin loader.aborted
    /\ loader' = Loader_unmount(loader)
    /\ UNCHANGED <<grid, vrf, ws, live, timer>>

InitLoader == InitWith(Grid(10, 10), DesktopEnv, "view")
NextLoader ==
    \/ LoadData
    \/ \E k \in 1..MaxLoads, r \in Responses : GameResponse(k, r)
    \/ \E k \in 1..MaxLoads, r \in Responses : OrderBookResponse(k, r)
    \/ \E k \in 1..MaxLoads, r \in Responses : UserOrdersResponse(k, r)
    \/ LoaderUnmount
SpecLoader == InitLoader /\ [][NextLoader]_vars

(***************************************************************************)
(* useVRFWorker: a call, a step of the worker, the delivery of an answer   *)
(***************************************************************************)
VRFCall(kind) ==
    /\ vrf.calls < MaxRequests
    /\ vrf' = VRF_call(vrf, kind)
    /\ UNCHANGED <<grid, loader, ws, live, timer>>

WorkerStep ==
    /\ vrf.toWorker # <<>>
    /\ vrf' = Worker_onmessage(vrf)
    /\ UNCHANGED <<grid, loader, ws, live, timer>>

WorkerAnswer ==
    /\ vrf.toMain # <<>>
    /\ vrf' = WebWorker_onmessage(vrf)
    /\ UNCHANGED <<grid, loader, ws, live, timer>>

InitVRF == InitWith(Grid(10, 10), DesktopEnv, "view")
NextVRF == (\E kind \in WorkerKinds : VRFCall(kind)) \/ WorkerStep \/ WorkerAnswer
SpecVRF == InitVRF /\ [][NextVRF]_vars

(***************************************************************************)
(* WebSocketClient: connect() from a mounting useWebSocket, the events of  *)
(* a socket, disconnect(), a reconnection timeout                          *)
(***************************************************************************)
WSIdle == UNCHANGED <<grid, loader, vrf, live, timer>>

\* the events whose handler calls handleReconnection: at most MaxTimers
\* timeouts are pending at a time
WSMaySchedule == ws.timers < MaxTimers

WSConnect ==
    /\ WS_connected(ws) \/ Cardinality(WS_created(ws)) < MaxSockets
    /\ ws' = WS_connect(ws)
    /\ WSIdle

SocketConnect(i) ==
    /\ ws.state[i] = "connecting"
    /\ ws' = WS_onConnect(ws, i)
    /\ WSIdle

SocketConnectError(i, retrying) ==
    /\ ws.state[i] = "connecting"
    /\ WSMaySchedule
    /\ ws' = WS_onConnectError(ws, i, retrying)
    /\ WSIdle

DisconnectReasons == {"io server disconnect", "transport close"}

\* socket.io-client reconnects by itself except after a server disconnect
SocketDisconnect(i, reason, retrying) ==
    /\ ws.state[i] = "connected"
    /\ reason = "io server disconnect" => ~retrying /\ WSMaySchedule
    /\ ws' = WS_onDisconnect(ws, i, reason, retrying)
    /\ WSIdle

WSDisconnect ==
    /\ ws.socket # 0
    /\ ws' = WS_disconnect(ws)
    /\ WSIdle

ReconnectTimeout ==
    /\ ws.timers > 0
    /\ ws' = WS_reconnectTimeout(ws)
    /\ WSIdle

InitWS == InitWith(Grid(10, 10), DesktopEnv, "view")
NextWS ==
    \/ WSConnect
    \/ \E i \in 1..MaxSockets : SocketConnect(i)
    \/ \E i \in 1..MaxSockets, retrying \in BOOLEAN : SocketConnectError(i, retrying)
    \/ \E i \in 1..MaxSockets, reason \in DisconnectReasons, retrying \in BOOLEAN :
          SocketDisconnect(i, reason, retrying)
    \/ WSDisconnect
    \/ ReconnectTimeout
SpecWS == InitWS /\ [][NextWS]_vars

(***************************************************************************)
(* LiveReveal: new round results (or autoPlay), the reveal timeout, the    *)
(* control buttons                                                         *)
(***************************************************************************)
LiveIdle == UNCHANGED <<grid, loader, vrf, ws, timer>>

\* the orders a shuffle of round results over the blocks 1..MaxResults can give
RevealOrders ==
    {order \in UNION {[1..n -> 1..MaxResults] : n \in 0..MaxResults} :
        \A i, j \in DOMAIN order : i # j => order[i] # order[j]}

LiveRoundResults(shuffled, autoPlay) ==
    /\ live' = Live_initEffect(live, shuffled, autoPlay)
    /\ LiveIdle

LiveTimeout ==
    /\ Live_timerSet(live)
    /\ live' = Live_timeout(live)
    /\ LiveIdle

LiveStart == live' = Live_startReveal(live) /\ LiveIdle

LivePause == live' = Live_pauseReveal(live) /\ LiveIdle

LiveResume == live' = Live_resumeReveal(live) /\ LiveIdle

LiveSkipToEnd == live' = Live_skipToEnd(live) /\ LiveIdle

LiveReset == live' = Live_reset(live) /\ LiveIdle

InitLive == InitWith(Grid(10, 10), DesktopEnv, "view")
NextLive ==
    \/ \E shuffled \in RevealOrders, autoPlay \in BOOLEAN : LiveRoundResults(shuffled, autoPlay)
    \/ LiveTimeout
    \/ LiveStart
    \/ LivePause
    \/ LiveResume
    \/ LiveSkipToEnd
    \/ LiveReset
SpecLive == InitLive /\ [][NextLive]_vars

(***************************************************************************)
(* RoundTimer: a new currentRound from the parent, the interval            *)
(***************************************************************************)
RoundStates == {"none", "trading", "trading_closed", "vrf_requested", "revealing", "completed"}
CloseTimes == {10, 35}

RoundUpdate(status, closeTime) ==
    /\ <<status, closeTime>> # <<timer.round, timer.tradeCloseTime>>
    /\ timer' = Timer_initialCalculation(
                    [timer EXCEPT !.round = status, !.tradeCloseTime = closeTime,
                                  !.last = "round"])
    /\ UNCHANGED <<grid, loader, vrf, ws, live>>

TimerTick ==
    /\ timer.now < MaxClock
    /\ timer' = Timer_tick(timer)
    /\ UNCHANGED <<grid, loader, vrf, ws, live>>

InitTimer == InitWith(Grid(10, 10), DesktopEnv, "view")
NextTimer ==
    \/ \E status \in RoundStates, closeTime \in CloseTimes : RoundUpdate(status, closeTime)
    \/ TimerTick
SpecTimer == InitTimer /\ [][NextTimer]_vars

\* backend selection and switching
RenderGrids == {Grid(10, 10), Grid(50, 100), Grid(80, 80)}
InitSelect == \E g \in Grids, e \in Envs : InitWith(g, e, "select")
NextSelect ==
    \/ \E g \in RenderGrids, e \in {DesktopEnv, PhoneEnv} : GameGridRender(g, e)
    \/ CanvasZoomIn
    \/ MobileZoomIn
    \/ \E id \in ProbeIds(cols) : BlockClick(id)
SpecSelect == InitSelect /\ [][NextSelect]_vars

(***************************************************************************)
(* What the mounted rasterized backend draws in the current state          *)
(***************************************************************************)
Pitch(b, zoom) == IF b = "canvas" THEN Canvas_pitch(zoom) ELSE Mobile_pitch(zoom)

Pixels ==
    IF backend = "canvas" THEN Canvas_pixels(canvasSize, env)
                          ELSE Mobile_pixels(canvasSize, env)

Culled ==
    IF backend = "canvas" THEN Canvas_drawGrid(viewport, Pixels, rows, cols)
                          ELSE Mobile_drawGrid(viewport, Pixels, rows, cols)

\* for (let row = startY; row < endY; row++) for (let col = startX; col < endX; col++)
\* drawGrid: const ctx = canvas.getContext('2d'); if (!ctx) return
DrawnCount == IF context2d THEN Cardinality(Culled.startY..(Culled.endY - 1))
                                  * Cardinality(Culled.startX..(Culled.endX - 1))
                           ELSE 0

CulledRows == Culled.startY..(Culled.endY - 1)
CulledCols == Culled.startX..(Culled.endX - 1)
CulledCount == Cardinality(CulledRows) * Cardinality(CulledCols)

(***************************************************************************)
(* C1                                                                      *)
(***************************************************************************)
ZoomMax(b) == IF b = "canvas" THEN Canvas_zoomMax ELSE Mobile_zoomMax

\* C1: after any sequence of wheel-zoom, pinch-zoom, zoom button, fit-to-view and
\* reset operations the zoom of the mounted rasterized backend lies within
\* [0.1, 5] (desktop) or [0.1, 3] (touch)
C1_ZoomWithinBounds ==
    backend \in Rasterized =>
        /\ RLe(Canvas_zoomMin, viewport.zoom)
        /\ RLe(viewport.zoom, ZoomMax(backend))

(***************************************************************************)
(* C2                                                                      *)
(***************************************************************************)
\* the grid position, in pitch units, under the canvas point a
GridPos(vp, a) ==
    [x |-> RDiv(RSub(a.x, vp.x), Canvas_pitch(vp.zoom)),
     y |-> RDiv(RSub(a.y, vp.y), Canvas_pitch(vp.zoom))]

InWheelRange(z) == RLe(Canvas_zoomMin, z) /\ RLe(z, Canvas_zoomMax)

\* C2: a wheel event at a screen point that takes the zoom from z to z', both in
\* [0.1, 5], leaves the grid position (in pitch units) under that point unchanged
C2_WheelAnchored ==
    [][(lastEvt'.type = "wheel" /\ InWheelRange(viewport.zoom)
            /\ InWheelRange(viewport'.zoom)) =>
        LET a == Pt(RSub(lastEvt'.pos.x, R(RectLeft)), RSub(lastEvt'.pos.y, R(RectTop)))
        IN  GridPos(viewport', a) = GridPos(viewport, a)]_vars

(***************************************************************************)
(* C3                                                                      *)
(***************************************************************************)
\* the grid lies at least one canvas width (height) away from the canvas
FarOut ==
    LET pitch == Pitch(backend, viewport.zoom)
    IN  \/ RLe(R(2 * Pixels.width), viewport.x)
        \/ RLe(RAdd(viewport.x, RMul(R(cols), pitch)), R(-Pixels.width))
        \/ RLe(R(2 * Pixels.height), viewport.y)
        \/ RLe(RAdd(viewport.y, RMul(R(rows), pitch)), R(-Pixels.height))

\* C3: every (row, col) the culler of a rasterized backend enumerates lies in
\* [0,rows) x [0,cols), and for a grid panned far off the canvas it enumerates none
C3_CullerInBounds ==
    backend \in Rasterized =>
        /\ (CulledRows # {} /\ CulledCols # {}) =>
                /\ \A row \in CulledRows : 0 <= row /\ row < rows
                /\ \A col \in CulledCols : 0 <= col /\ col < cols
        /\ FarOut => CulledCount = 0

C3_Witness ==
    /\ backend \in Rasterized /\ camOps > 0
    /\ FarOut /\ CulledCount = 0
    /\ RLt(viewport.x, R(0))

(***************************************************************************)
(* C4                                                                      *)
(***************************************************************************)
\* the pixel margin of the culler in cells: 20 / pitch on touch; the desktop
\* culler has no margin and enumerates one more cell at the far edge
BufferCells ==
    IF backend = "canvas" THEN R(1)
    ELSE RDiv(R(Mobile_buffer), Pitch(backend, viewport.zoom))

CullBound(extra) ==
    LET pitch == Pitch(backend, viewport.zoom)
        twice == RMul(R(2), BufferCells)
    IN  (RCeil(RAdd(RDiv(R(Pixels.width), pitch), twice)) + extra)
          * (RCeil(RAdd(RDiv(R(Pixels.height), pitch), twice)) + extra)

C5_SelectorTable ==
    LET totalCells == rows * cols
        touch == env.innerWidth < 768
    IN  backend = IF totalCells <= 1000 THEN "percell"
                  ELSE IF touch THEN "mobile"
                  ELSE IF totalCells <= 5000 THEN "virtualized"
                  ELSE "canvas"

C5_Witness ==
    /\ renders > 0
    /\ rows * cols = 5000 /\ backend = "virtualized"

\* C6: a render that changes the backend leaves the selection set and the reveal
\* set as they were, and the camera too when both backends have one
C6_SwitchPreservesState ==
    [][backend' # backend =>
        /\ (backend \in Rasterized /\ backend' \in Rasterized) => viewport' = viewport
        /\ selectedBlocks' = selectedBlocks
        /\ revealingBlocks' = revealingBlocks]_vars

(***************************************************************************)
(* C7 - C10                                                                *)
(***************************************************************************)
\* the cell the hit test of the mounted rasterized backend resolves pt to
HitCell(pt) ==
    IF backend = "canvas"
      THEN [row |-> Canvas_hitRow(viewport, pt), col |-> Canvas_hitCol(viewport, pt)]
      ELSE [row |-> Mobile_hitRow(viewport, pt), col |-> Mobile_hitCol(viewport, pt)]

InGrid(cell) ==
    cell.row >= 0 /\ cell.row < rows /\ cell.col >= 0 /\ cell.col < cols

CellId(cell) == cell.row * cols + cell.col

OnUnsoldCell(pt) ==
    /\ InGrid(HitCell(pt))
    /\ HasRecord(blocks, CellId(HitCell(pt)))
    /\ blocks[CellId(HitCell(pt))] = "unsold"

\* C7: in select mode a tap on an in-bounds unsold cell of a rasterized backend
\* fires exactly one callback for the cell under the pointer: onSelect if the
\* cell is not selected, onDeselect if it is
C7_TapFiresOneCallback ==
    [][(lastEvt'.type = "tap" /\ backend \in Rasterized /\ mode = "select"
            /\ OnUnsoldCell(lastEvt'.pos)) =>
        LET cell == HitCell(lastEvt'.pos)
            id == CellId(cell)
        IN  fired' = IF id \in selectedBlocks
                       THEN <<Desel(id, cell.row, cell.col)>>
                       ELSE <<Sel(id, cell.row, cell.col)>>]_vars

\* C8: a pointer session in which the pointer moved or a second pointer engaged
\* fires no callback, neither while it lasts nor when its pointers are released
C8_OnlyTapsFire ==
    (backend \in Rasterized /\ (sess.moved \/ sess.multi)) => fired = <<>>

\* C9: a callback fires only in select mode and only for a cell inside
\* [0,rows) x [0,cols), which on a rasterized backend is the cell the hit point
\* resolves to
C9_FiresOnlyInSelectModeInGrid ==
    \A i \in 1..Len(fired) :
        /\ mode = "select"
        /\ InGrid(fired[i])
        /\ fired[i].id = CellId(fired[i])
        /\ backend \in Rasterized =>
              /\ InGrid(HitCell(lastEvt.pos))
              /\ fired[i].row = HitCell(lastEvt.pos).row
              /\ fired[i].col = HitCell(lastEvt.pos).col

C9_Witness ==
    /\ backend = "canvas" /\ mode # "select"
    /\ lastEvt.type = "tap" /\ OnUnsoldCell(lastEvt.pos)
    /\ fired = <<>>

\* C10: two successive toggles of the same unsold cell, each applied by the
\* caller, leave the selection set as it was before the first
C10_DoubleToggleRestores ==
    tog.n = 2 => selectedBlocks = tog.before

C10_Witness ==
    /\ tog.n = 2 /\ tog.before # {}
    /\ Len(fired) = 1 /\ fired[1].kind = "deselect"

(***************************************************************************)
(* C11                                                                     *)
(***************************************************************************)
Status(id) == IF HasRecord(blocks, id) THEN blocks[id] ELSE "none"

\* the last event was a release of the pointer over an in-bounds cell of a
\* rasterized backend that is alive or eliminated
ReleasedOnSoldCell(evt) ==
    /\ backend \in Rasterized
    /\ evt.type \in {"tap", "release", "lift"}
    /\ InGrid(HitCell(evt.pos))
    /\ Status(CellId(HitCell(evt.pos))) \in {"alive", "eliminated"}

\* C11: every id that enters the selection set, by a toggle or by the random
\* preview, is unsold in the store at that time, and a pointer release over an
\* alive or eliminated cell leaves the selection set unchanged
C11_InsertedWhileUnsold ==
    [][/\ \A id \in selectedBlocks' \ selectedBlocks : Status(id) = "unsold"
       /\ ReleasedOnSoldCell(lastEvt') => selectedBlocks' = selectedBlocks]_vars

C11_Witness ==
    /\ lastEvt.type = "random" /\ Cardinality(selectedBlocks) = 2
    /\ Status(0) = "alive"

(***************************************************************************)
(* C12                                                                     *)
(***************************************************************************)
\* the cell a tap or click event was made on
EventCell(evt) ==
    IF backend \in Rasterized THEN HitCell(evt.pos)
    ELSE [row |-> RFloor(evt.pos.y), col |-> RFloor(evt.pos.x)]

\* C12: in select mode a tap or click on an in-bounds cell that has no record
\* in the store flips its membership in the selection set, on every backend
C12_MissingRecordTogglesAsUnsold ==
    [][(mode = "select" /\ lastEvt'.type \in {"tap", "click"}
            /\ InGrid(EventCell(lastEvt'))
            /\ ~HasRecord(blocks, CellId(EventCell(lastEvt')))) =>
        LET id == CellId(EventCell(lastEvt'))
        IN  selectedBlocks' = IF id \in selectedBlocks
                                THEN selectedBlocks \ {id}
                                ELSE selectedBlocks \cup {id}]_vars

(***************************************************************************)
(* C13                                                                     *)
(***************************************************************************)
\* no pointer is down on the canvas of the mounted rasterized backend
NoPointerDown ==
    IF backend = "mobile" THEN touches = <<>> ELSE ~isDragging

\* C13: once all pointers are released or lost the backend is idle (not
\* dragging), and the first move of a session takes its pan delta from the
\* position its own pointer-down recorded and its pinch factor from no distance
\* of an earlier session (a first two-finger move leaves the zoom unchanged)
FirstMoveFresh ==
    (backend = "mobile" /\ lastEvt'.type = "move" /\ ~sess.moved) =>
        IF Len(touches) = 2
          THEN viewport' = viewport
          ELSE \A i \in 1..Len(touches) :
                  \/ viewport' = viewport
                  \/ viewport' =
                       [viewport EXCEPT
                          !.x = RAdd(@, RSub(touches'[i].x, touches[i].x)),
                          !.y = RAdd(@, RSub(touches'[i].y, touches[i].y))]

IdleWhenReleased == NoPointerDown' => ~isDragging'

C13_NoGestureStateSurvives ==
    [][(backend \in Rasterized) => (IdleWhenReleased /\ FirstMoveFresh)]_vars

Init == InitGesture
Next == NextGesture
Spec == SpecGesture

\* C14: the animation-frame loop of the canvas runs only while the reveal set
\* is not empty: once the set is empty or the canvas is gone no callback is
\* armed, and at no time is more than one loop armed
C14_SingleLoopWhileRevealing ==
    /\ Cardinality(raf.armed) <= 1
    /\ (revealingBlocks = {} \/ backend # "canvas") => raf.armed = {}

\* the camera fitToView computes in the current state
FitResult ==
    IF backend = "canvas" THEN Canvas_fitToView(viewport, canvasSize, rows, cols)
                          ELSE Mobile_fitToView(viewport, canvasSize, rows, cols)

\* the margins the grid, drawn at the pitch of the current zoom, leaves in the
\* viewport; the gap after the last cell is counted to the grid
FitMargins ==
    LET gridW == RMul(R(cols), Pitch(backend, viewport.zoom))
        gridH == RMul(R(rows), Pitch(backend, viewport.zoom))
    IN  [left |-> viewport.x,
         right |-> RSub(RSub(R(canvasSize.width), viewport.x), gridW),
         top |-> viewport.y,
         bottom |-> RSub(RSub(R(canvasSize.height), viewport.y), gridH)]

\* C15: after fitToView the grid as drawn is centered in the viewport (left
\* margin = right margin, top = bottom) and lies inside it
C15_FitCentersGrid ==
    (backend \in Rasterized /\ lastEvt.type = "button" /\ viewport = FitResult)
        => /\ FitMargins.left = FitMargins.right
           /\ FitMargins.top = FitMargins.bottom
           /\ RLe(R(0), FitMargins.left)
           /\ RLe(R(0), FitMargins.top)

\* C16: a two-finger move whose previous pinch distance is zero leaves the
\* camera (offset and zoom) unchanged
C16_ZeroDistanceIsNoOp ==
    [][(/\ backend = "mobile"
        /\ lastEvt'.type = "move"
        /\ Len(touches) = 2
        /\ dataset.lastDistance.set
        /\ dataset.lastDistance.v = R(0)) => viewport' = viewport]_vars

\* the colour a cell is filled with by the mounted backend
BaseColor(id) ==
    IF backend = "canvas" THEN Canvas_fillColor(blocks, id)
    ELSE IF backend = "mobile" THEN Mobile_fillColor(blocks, id)
    ELSE Markup_baseColor(blocks, id, userAddress)

\* the shared table: the colour of the status, unsold for a cell without record
TableColor(id) == IF Status(id) \in {"alive", "eliminated"} THEN Status(id) ELSE "unsold"

\* C17: on every backend the base colour of a cell is the colour the table
\* gives its status, whoever owns the cell and whether or not it is selected
C17_BaseColorFromStatus ==
    \A id \in ProbeIds(cols) : BaseColor(id) = TableColor(id)

\* where the mounted backend draws a cell, and the side of the square it fills
CellOrigin(row, col) ==
    IF backend = "canvas" THEN Canvas_cellOrigin(viewport, row, col)
                          ELSE Mobile_cellOrigin(viewport, row, col)
CellSide ==
    IF backend = "canvas" THEN Canvas_cellSize(viewport.zoom)
                          ELSE Mobile_cellSize(viewport.zoom)

\* the client point of the canvas point lying (t, u) sides into the cell
PointInCell(row, col, t, u) ==
    LET o == CellOrigin(row, col)
    IN  Pt(RAdd(RAdd(o.x, RMul(t, CellSide)), R(RectLeft)),
           RAdd(RAdd(o.y, RMul(u, CellSide)), R(RectTop)))

\* the first and last cell of the grid and of the culled range, per axis
SampleRows == {r \in {0, rows - 1, Culled.startY, Culled.endY - 1} : r >= 0 /\ r < rows}
SampleCols == {c \in {0, cols - 1, Culled.startX, Culled.endX - 1} : c >= 0 /\ c < cols}
SideFractions == {R(0), Frac(1, 2), R(1)}

\* C18: in every camera state the hit test resolves the points of the square
\* at which an in-bounds cell is drawn (corners, edges, centre) to that cell
C18_HitTestInvertsDraw ==
    backend \in Rasterized =>
        /\ \A col \in SampleCols : \A t \in SideFractions :
               HitCell(PointInCell(0, col, t, R(0))).col = col
        /\ \A row \in SampleRows : \A u \in SideFractions :
               HitCell(PointInCell(row, 0, R(0), u)).row = row

\* a panned and zoomed desktop canvas whose first drawn column is not column 0
\* and whose pitch is not a whole number of pixels
C18_Witness ==
    /\ backend = "canvas" /\ camOps > 0
    /\ Culled.startX > 0 /\ Culled.startX < Culled.endX
    /\ Canvas_pitch(viewport.zoom)[2] # 1
    /\ HitCell(PointInCell(0, Culled.startX, Frac(1, 2), Frac(1, 2))) =
          [row |-> 0, col |-> Culled.startX]

Backends == {"percell", "virtualized", "canvas", "mobile"}

\* C19: a grid whose configuration has non-positive rows or cols is rejected:
\* no backend is selected and mounted for it
C19_BadConfigRejected ==
    (rows <= 0 \/ cols <= 0) => backend \notin Backends

\* C20: when the rasterized backend cannot get its drawing context the grid is
\* rendered by a markup backend (virtualized, else per-cell) instead of by a
\* canvas that draws nothing
C20_FallbackWithoutContext ==
    ~context2d => (backend \notin Rasterized /\ backend \in Backends)

\* where the panning pointer is: the mouse since its last event, the one finger
PointerPos == IF backend = "canvas" THEN dragStart ELSE touches[1]

\* a move event of a one-pointer pan
PanMove ==
    /\ lastEvt'.type = "move"
    /\ IF backend = "canvas" THEN isDragging
                             ELSE Len(touches) = 1 /\ isDragging /\ ~sess.multi

\* C21: every move of a pan changes the camera offset by exactly the pointer's
\* displacement, so that the offset change since pointer-down is the pointer's
\* position minus its pointer-down position
C21_PanFollowsPointer ==
    [][PanMove =>
         /\ RSub(viewport'.x, viewport.x) = RSub(PointerPos'.x, PointerPos.x)
         /\ RSub(viewport'.y, viewport.y) = RSub(PointerPos'.y, PointerPos.y)
         /\ viewport'.zoom = viewport.zoom]_vars

\* the grid position, in pitch units, the touch canvas shows at client point a
MobileGridPos(vp, a) ==
    [x |-> RDiv(RSub(RSub(a.x, R(RectLeft)), vp.x), Mobile_pitch(vp.zoom)),
     y |-> RDiv(RSub(RSub(a.y, R(RectTop)), vp.y), Mobile_pitch(vp.zoom))]

Centroid(t1, t2) == Pt(RDiv(RAdd(t1.x, t2.x), R(2)), RDiv(RAdd(t1.y, t2.y), R(2)))

\* currentDistance / previousDistance of a two-finger move
PinchFactor ==
    RDiv(TouchDistance(touches'[1], touches'[2]), TouchDistance(touches[1], touches[2]))

\* a two-finger move whose stored previous distance is the distance the two
\* fingers had before it, not zero, and whose factor is beyond the threshold
PinchStep ==
    /\ backend = "mobile" /\ lastEvt'.type = "move" /\ Len(touches) = 2
    /\ dataset.lastDistance.set
    /\ dataset.lastDistance.v = TouchDistance(touches[1], touches[2])
    /\ dataset.lastDistance.v # R(0)
    /\ RLt(Frac(1, 100), RAbs(RSub(PinchFactor, R(1))))

\* C22: a pinch step sets the zoom to clamp(zoom * factor) and keeps the grid
\* position under the centroid of the two fingers
C22_PinchAnchoredAtCentroid ==
    [][PinchStep =>
         /\ viewport'.zoom = RMax(Mobile_zoomMin,
                                  RMin(Mobile_zoomMax, RMul(viewport.zoom, PinchFactor)))
         /\ MobileGridPos(viewport', Centroid(touches'[1], touches'[2])) =
              MobileGridPos(viewport, Centroid(touches'[1], touches'[2]))]_vars

\* C23: the range the virtualized backend materializes is the visible range of
\* the current scroll position, container size and cell size
C23_VisibleRangeCurrent ==
    backend = "virtualized" =>
        visibleRange = Virtualized_handleScroll(scroll.top, scroll.left,
                           Virtualized_containerHeight, env.containerWidth,
                           cellSize, rows, cols)

\* the cells along one axis whose drawn square meets the displayed canvas
\* [0, size): off + c * pitch < size and off + c * pitch + side > 0
FirstVisible(off, pitch, side) ==
    IMax(0, RFloor(RDiv(RSub(RNeg(off), side), pitch)) + 1)
LastVisible(off, pitch, n, size) ==
    IMin(n - 1, RCeil(RDiv(RSub(R(size), off), pitch)) - 1)

\* cell c of an axis is enumerated by the draw loop and not skipped
DrawnOnAxis(c, off, start, end, px) ==
    LET pitch == Pitch(backend, viewport.zoom)
        at == RAdd(off, RMul(R(c), pitch))
    IN  /\ context2d
        /\ start <= c /\ c < end
        /\ IF backend = "canvas" THEN Canvas_keepsCell(at, CellSide, px)
                                 ELSE Mobile_keepsCell(at, CellSide, px)

VisibleCols ==
    FirstVisible(viewport.x, Pitch(backend, viewport.zoom), CellSide)
      .. LastVisible(viewport.x, Pitch(backend, viewport.zoom), cols, canvasSize.width)
VisibleRows ==
    FirstVisible(viewport.y, Pitch(backend, viewport.zoom), CellSide)
      .. LastVisible(viewport.y, Pitch(backend, viewport.zoom), rows, canvasSize.height)

\* C24: every in-bounds cell whose square meets the displayed canvas is drawn
\* (a cell is drawn when its column and its row are; the first and the last
\* visible column and row decide it for the ones between them)
C24_CullingComplete ==
    (backend \in Rasterized /\ VisibleCols # {} /\ VisibleRows # {}) =>
        /\ \A c \in {FirstVisible(viewport.x, Pitch(backend, viewport.zoom), CellSide),
                      LastVisible(viewport.x, Pitch(backend, viewport.zoom), cols,
                                  canvasSize.width)} :
               DrawnOnAxis(c, viewport.x, Culled.startX, Culled.endX, Pixels.width)
        /\ \A r \in {FirstVisible(viewport.y, Pitch(backend, viewport.zoom), CellSide),
                      LastVisible(viewport.y, Pitch(backend, viewport.zoom), rows,
                                  canvasSize.height)} :
               DrawnOnAxis(r, viewport.y, Culled.startY, Culled.endY, Pixels.height)

\* the state the hook returns
LoaderState ==
    <<loader.game, loader.orderBook, loader.userOrders, loader.loadProgress,
      loader.error, loader.loading>>

\* C25: a step of a load that a newer loadData call has superseded writes none
\* of game, blocks, currentRound, orderBook, userOrders, loadProgress, error
\* and loading
C25_SupersededLoadWritesNothing ==
    [][(loader'.step # 0 /\ loader'.step < loader.ctrl) => LoaderState' = LoaderState]_vars

\* C26: every promise useVRFWorker returned that has resolved, resolved with
\* the result of its own request, also when calls overlap
C26_PromiseGetsOwnResult ==
    \A k \in DOMAIN vrf.promises : vrf.promises[k] > 0 => vrf.promises[k] = k

\* C27: every connected socket the client created is the one it holds in
\* this.socket, so at most one is live and none is open and unreferenced
C27_NoUnreferencedSocket ==
    \A i \in DOMAIN ws.state : ws.state[i] = "connected" => ws.socket = i

\* C28: reconnectAttempts stays in 0..5 and at most 5 reconnections are
\* scheduled between two successful connects; a successful connect resets the
\* counter to 0; once the counter is 5 no step schedules a reconnection
AttemptsInRange ==
    /\ ws.reconnectAttempts \in 0..maxReconnectAttempts
    /\ ws.scheduled <= maxReconnectAttempts

ConnectResets == ws'.last = "connect" => ws'.reconnectAttempts = 0

NoScheduleAtMax == ws.reconnectAttempts = maxReconnectAttempts => ws'.timers <= ws.timers

C28_ReconnectionsBounded ==
    []AttemptsInRange /\ [][ConnectResets /\ NoScheduleAtMax]_vars

\* handleReconnection was called with the counter at 5 and scheduled nothing
C28_Witness ==
    ws.last = "max reached" /\ ws.reconnectAttempts = maxReconnectAttempts /\ ws.scheduled = maxReconnectAttempts

\* C29: 0 <= currentIndex <= revealOrder.length and revealedBlocks is the set
\* of block ids of the first currentIndex entries of revealOrder; the index
\* moves forward only by the timeout of a started, unpaused reveal or by
\* skip-to-end
RevealConsistent ==
    /\ live.currentIndex \in 0..Len(live.revealOrder)
    /\ live.revealedBlocks = FirstIds(live.revealOrder, live.currentIndex)

AdvanceOnlyWhenRunning ==
    live'.currentIndex > live.currentIndex =>
        \/ live.isRevealing /\ ~live.isPaused
        \/ live'.last = "skip"

StatusOf(round) ==
    CASE round = "trading" -> "trading"
      [] round = "trading_closed" -> "closed"
      [] round = "vrf_requested" -> "vrf_pending"
      [] round = "revealing" -> "revealing"

C30_StatusFollowsRound ==
    (timer.last = "tick" /\ timer.round \in {"trading", "trading_closed", "vrf_requested", "revealing"})
        => timer.roundStatus = StatusOf(timer.round)

====
